---- MODULE Spec2Model ----
(***************************************************************************)
(* Pallet pattern editor: the canvas editor and its PlcManager (main.ts,   *)
(* src/unnamed/part_001), the React PalletEditor with usePlcCommunication  *)
(* (src/src/services/auth.services.ts) and the variants of both kept in    *)
(* src/unnamed/part_002.                                                   *)
(*                                                                         *)
(* Numbers.  World coordinates are millimetres.  Every input the model     *)
(* enumerates (pallet sizes, box sizes, grid steps, pointer positions,     *)
(* recipe fields) is an integer, and sizes are even, so that every         *)
(* half-extent w/2 and every centre the handlers compute is an integer     *)
(* and JavaScript's double arithmetic on them is exact.  Half(n) fails     *)
(* loudly on an odd n.  The viewport (scale, panX, panY) and screen        *)
(* coordinates are exact rationals <<numerator, denominator>>.             *)
(***************************************************************************)
EXTENDS Integers, Sequences, FiniteSets, TLC

(***************************************************************************)
(* Bounds of the model.                                                    *)
(***************************************************************************)
\* boxes the editor specifications let the collection grow to
MaxBoxes == 2
\* boxes the PLC transfer specification lets the collection grow to
MaxPlcBoxes == 21
\* transfers (reads and writes) that may be outstanding at once
MaxPending == 2
\* ids the editor specifications let nextId hand out before a clear or import
MaxNextId == 3
\* distance (screen units) a pan may carry the view from the fitted position
MaxPan == 600
\* largest denominator of a scale the zoom specification zooms once more
MaxScaleDen == 125
\* distance (screen units) zooms may carry the view from the fitted position
MaxZoomPan == 80
\* interval subscriptions alive at once
MaxSubscriptions == 2

(***************************************************************************)
(* Exact rationals <<n, d>> with d > 0, in lowest terms.                   *)
(***************************************************************************)
RECURSIVE Gcd(_, _)
Gcd(a, b) == IF b = 0 THEN a ELSE Gcd(b, a % b)

Abs(n) == IF n < 0 THEN -n ELSE n

RNorm(n, d) ==
    LET g == Gcd(Abs(n), Abs(d))
        s == IF d < 0 THEN -1 ELSE 1
    IN  <<(s * n) \div g, (s * d) \div g>>

R(n) == <<n, 1>>
\* sums and comparisons over the least common denominator, products after
\* cancelling across, so that no intermediate value outgrows the result
RAdd(a, b) ==
    LET g == Gcd(a[2], b[2])
    IN  RNorm(a[1] * (b[2] \div g) + b[1] * (a[2] \div g), (a[2] \div g) * b[2])
RSub(a, b) == RAdd(a, <<-b[1], b[2]>>)
RMul(a, b) ==
    LET g1 == Gcd(Abs(a[1]), b[2])
        g2 == Gcd(Abs(b[1]), a[2])
    IN  RNorm((a[1] \div g1) * (b[1] \div g2), (a[2] \div g2) * (b[2] \div g1))
RDiv(a, b) == RMul(a, IF b[1] < 0 THEN <<-b[2], -b[1]>> ELSE <<b[2], b[1]>>)
RLe(a, b) ==
    LET g == Gcd(a[2], b[2])
    IN  a[1] * (b[2] \div g) <= b[1] * (a[2] \div g)
RMin(a, b) == IF RLe(a, b) THEN a ELSE b
RMax(a, b) == IF RLe(a, b) THEN b ELSE a
\* the integer a rational denotes; fails when it is not one
RInt(a) == CHOOSE n \in {a[1]} : a[2] = 1

(***************************************************************************)
(* Math & Logic (part_001:245-272).                                        *)
(***************************************************************************)
Min(a, b) == IF a <= b THEN a ELSE b
Max(a, b) == IF a >= b THEN a ELSE b

\* n / 2 for an even n
Half(n) == CHOOSE h \in {n \div 2} : 2 * h = n

\* Math.round(n / step) for step > 0: the nearest integer, ties upwards
MathRound(n, step) == (2 * n + step) \div (2 * step)

clamp(n, min, max) == Max(min, Min(max, n))

\* a snap that takes the multiple of step below n
snapDown(n, step) == IF step <= 1 THEN n ELSE (n \div step) * step

snap(n, step) == IF step <= 1 THEN n ELSE MathRound(n, step) * step

getDims(b) ==
    [hw |-> Half(IF b.rot = 0 THEN b.w ELSE b.d),
     hd |-> Half(IF b.rot = 0 THEN b.d ELSE b.w)]

\* clampBoxToPallet against a pallet of pw x pd
clampBoxTo(b, pw, pd) ==
    LET dims == getDims(b)
    IN  [b EXCEPT !.x = clamp(b.x, dims.hw, pw - dims.hw),
                  !.y = clamp(b.y, dims.hd, pd - dims.hd)]

(***************************************************************************)
(* State of the canvas editor (part_001:73-97), the values of the form     *)
(* fields its handlers read, and the canvas backing store.                 *)
(***************************************************************************)
VARIABLES
    palletW, palletD, grid,      \* pallet configuration
    boxes, nextId, selectedId,   \* box collection, id counter, selection
    scale, panX, panY,           \* view transform
    isDragging, isPanning,       \* interaction flags
    pointerCapture,              \* the canvas holds the capture of the pointer
    dragOffsetX, dragOffsetY,    \* pointer-to-centre offset of the drag
    lastPointerX, lastPointerY,  \* last pointer position (screen)
    dirty, rafScheduled,         \* render scheduler flags
    rafQueue,                    \* frame callbacks the browser holds
    frameLog,                    \* marks: markDirty calls since the last frame
                                 \* callback ran; saw, drew: the marks the last
                                 \* callback found and whether it called draw()
    canvas,                      \* canvas.width, canvas.height
    palletWEl, palletDEl, gridEl,\* values of the three config inputs
    jsonEl,                      \* text of the recipe textarea
    alertMsg                     \* alert() of the last editor handler, or ""

editorVars ==
    <<palletW, palletD, grid, boxes, nextId, selectedId, scale, panX, panY,
      isDragging, isPanning, pointerCapture, dragOffsetX, dragOffsetY,
      lastPointerX, lastPointerY, dirty, rafScheduled, rafQueue, frameLog, canvas,
      palletWEl, palletDEl, gridEl, jsonEl, alertMsg>>

\* selectedId = null; ids start at 1, and the code tests selectedId by truthiness
null == 0

(***************************************************************************)
(* Inputs the environment may supply.                                      *)
(***************************************************************************)
\* Number(el.value) of a config input; 0 stands for an empty or non-numeric text
PalletWInputs == {50, 400}
PalletDInputs == {250}
GridInputs == {50}
\* Number(boxWEl.value), Number(boxDEl.value); <<0, 0>> is the empty form
BoxDimInputs == {<<0, 0>>}
\* world points the pointer events of the model land on
PointerPoints == {<<0, 0>>, <<600, 400>>}
\* e.button: 0 primary, 2 secondary
Buttons == {0, 2}
\* canvas.getBoundingClientRect(), with devicePixelRatio 1
CanvasRects == {[width |-> 1248, height |-> 848]}
\* ... and as draw() may find it after the window was resized
FrameRects == CanvasRects \cup {[width |-> 648, height |-> 448]}

(***************************************************************************)
(* Recipe text.  A text is what JSON.parse makes of it: parses = FALSE is  *)
(* a text JSON.parse throws on; w, d, grid = 0 stand for an absent, null   *)
(* or zero field; boxesOk = FALSE is a "boxes" value whose conversion      *)
(* throws (a non-array such as 5, or an array holding null).               *)
(***************************************************************************)
RecipeText(parses, w, d, g, boxesOk, bs) ==
    [parses |-> parses, w |-> w, d |-> d, grid |-> g, boxesOk |-> boxesOk,
     boxes |-> bs]

EmptyText == RecipeText(FALSE, 0, 0, 0, TRUE, <<>>)

RecipeBox(x, y, w, d, rot) == [x |-> x, y |-> y, w |-> w, d |-> d, rot |-> rot]

\* exportRecipe (part_001:448-454): the configuration and the boxes without ids
exportRecipe ==
    [pallet |-> [w |-> palletW, d |-> palletD],
     grid |-> grid,
     boxes |-> [i \in 1..Len(boxes) |->
                  RecipeBox(boxes[i].x, boxes[i].y, boxes[i].w, boxes[i].d,
                            boxes[i].rot)]]

\* JSON.stringify(recipe, null, 2) as the text JSON.parse reads back
JSONstringify(recipe) ==
    RecipeText(TRUE, recipe.pallet.w, recipe.pallet.d, recipe.grid, TRUE,
               recipe.boxes)

(***************************************************************************)
(* View transform (part_001:266-272, 394-403).                             *)
(***************************************************************************)
worldToScreen(wx, wy) ==
    [x |-> RAdd(panX, RMul(R(wx), scale)), y |-> RAdd(panY, RMul(R(wy), scale))]

\* a screenToWorld that divides by the scale without taking the pan off
screenToWorldUnpanned(sx, sy) ==
    [x |-> RDiv(sx, scale), y |-> RDiv(sy, scale)]

screenToWorld(sx, sy) ==
    [x |-> RDiv(RSub(sx, panX), scale), y |-> RDiv(RSub(sy, panY), scale)]

margin == 24

\* the scale fitView computes for a pallet of pw x pd in a canvas of rect
fitScale(rect, pw, pd) ==
    LET sx == RNorm(rect.width - margin * 2, pw)
        sy == RNorm(rect.height - margin * 2, pd)
    IN  RMax(<<1, 20>>, RMin(<<2, 1>>, RMin(sx, sy)))

(***************************************************************************)
(* Render scheduler (part_001:274-297, 375-390).                           *)
(***************************************************************************)
\* markDirty calls since the last frame callback: "none", "one" or "many"
oneMore(marks) == IF marks = "none" THEN "one" ELSE "many"

\* a markDirty that requests a frame callback on every call
markDirtyAlways ==
    /\ dirty' = TRUE
    /\ rafScheduled' = TRUE
    /\ rafQueue' = rafQueue + 1
    /\ frameLog' = [frameLog EXCEPT !.marks = oneMore(@)]

\* a markDirty that requests the callback but leaves the dirty flag alone
markDirtyUnflagged ==
    /\ UNCHANGED dirty
    /\ rafScheduled' = TRUE
    /\ rafQueue' = IF rafScheduled THEN rafQueue ELSE rafQueue + 1
    /\ frameLog' = [frameLog EXCEPT !.marks = oneMore(@)]

\* a markDirty that sets both flags and never calls requestAnimationFrame
markDirtyUnrequested ==
    /\ dirty' = TRUE
    /\ rafScheduled' = TRUE
    /\ UNCHANGED rafQueue
    /\ frameLog' = [frameLog EXCEPT !.marks = oneMore(@)]

\* markDirty(): one frame callback is requested unless one is pending
markDirty ==
    /\ dirty' = TRUE
    /\ rafScheduled' = TRUE
    /\ rafQueue' = IF rafScheduled THEN rafQueue ELSE rafQueue + 1
    /\ frameLog' = [frameLog EXCEPT !.marks = oneMore(@)]

\* the canvas size resizeCanvasToCSSPixels computes for rect
cssPixels(rect) == [width |-> rect.width, height |-> rect.height]

(***************************************************************************)
(* State of the PlcManager and of the React editor; declared here, their   *)
(* operations follow the canvas editor's.                                  *)
(***************************************************************************)
VARIABLES
    authToken,            \* AuthService.authToken, or NoToken
    storedToken,          \* sessionStorage 'authToken', or NoToken
    pollingSubscription,  \* TRUE while the polling subscription is held
    subscriptions,        \* how many interval(2000) subscriptions were made
                          \* and not unsubscribed
    plcStatus,            \* plcStatusEl.textContent
    pending,              \* transfers awaiting the transport's answer
    lastWrite,            \* the last writePattern call: its argument, the
                          \* token it got, what it passed to bulkExecute
    lastRead,             \* the last readPattern call, likewise
    lastDone,             \* the last readPattern or writePattern call that
                          \* returned: who made it and whether it had failed
    communicator          \* the PlcCommunicator of part_002:86-167: its
                          \* writePattern in progress and the write button

plcVars ==
    <<authToken, storedToken, pollingSubscription, subscriptions, plcStatus, pending,
      lastWrite, lastRead, lastDone, communicator>>

VARIABLES
    build,                \* which copy of the component runs: "auth.services"
                          \* (auth.services.ts) or "part_002" (part_002:2403-)
    config,               \* PalletConfig {width, depth, grid}
    rBoxes, rNextId,      \* boxes, nextId of the component
    selectedIds,          \* selected ids
    view,                 \* viewBox {x, y, w, h}
    rIsDragging,          \* isDragging of the component
    dragStart, dragOffset,\* <<x, y>>, or <<>> for null
    connectionStatus, opStatus,
    connectTimers,        \* setTimeout(..., 800) of connect pending
    successTimers,        \* setTimeout(() => setOpStatus('idle'), 2000) pending
    rPending,             \* the operation the hook is awaiting, op "none" if none
    rAlertMsg             \* alert() of the last handler of the component, or ""

reactVars ==
    <<build, config, rBoxes, rNextId, selectedIds, view, rIsDragging,
      dragStart, dragOffset, connectionStatus, opStatus, connectTimers,
      successTimers, rPending, rAlertMsg>>

vars == <<editorVars, plcVars, reactVars>>

(***************************************************************************)
(* Actions of the canvas editor (part_001:392-505).                        *)
(***************************************************************************)
\* a new box from the form's width and depth (part_001:415-417)
newBox(id, x, y, dims) ==
    [id |-> id, x |-> snap(x, grid), y |-> snap(y, grid),
     w |-> Max(10, IF dims[1] # 0 THEN dims[1] ELSE 300),
     d |-> Max(10, IF dims[2] # 0 THEN dims[2] ELSE 200),
     rot |-> 0]

\* an addBoxAt that numbers the new box by the size of the collection
addBoxAtByCount(x, y, dims) ==
    LET b == clampBoxTo(newBox(Len(boxes) + 1, x, y, dims), palletW, palletD)
    IN  /\ nextId' = nextId + 1
        /\ boxes' = Append(boxes, b)
        /\ selectedId' = b.id
        /\ markDirty
        /\ alertMsg' = ""
        /\ UNCHANGED <<palletW, palletD, grid, scale, panX, panY, isDragging,
                       isPanning, dragOffsetX, dragOffsetY, lastPointerX,
                       lastPointerY, canvas, palletWEl, palletDEl, gridEl,
                       jsonEl>>

\* addBoxAt(x, y) (part_001:414-422)
addBoxAt(x, y, dims) ==
    LET b == clampBoxTo(newBox(nextId, x, y, dims), palletW, palletD)
    IN  /\ nextId' = nextId + 1
        /\ boxes' = Append(boxes, b)
        /\ selectedId' = b.id
        /\ markDirty
        /\ alertMsg' = ""
        /\ UNCHANGED <<palletW, palletD, grid, scale, panX, panY, isDragging,
                       isPanning, dragOffsetX, dragOffsetY, lastPointerX,
                       lastPointerY, canvas, palletWEl, palletDEl, gridEl,
                       jsonEl>>

\* btnAdd click (part_001:511)
AddClick(dims) ==
    /\ addBoxAt(Half(palletW), Half(palletD), dims)
    /\ UNCHANGED <<pointerCapture, plcVars, reactVars>>

\* canvas dblclick at the screen point over world point p (part_001:634-638)
DblClick(p, dims) ==
    LET s == worldToScreen(p[1], p[2])
        w == screenToWorld(s.x, s.y)
    IN  /\ addBoxAt(RInt(w.x), RInt(w.y), dims)
        /\ UNCHANGED <<pointerCapture, plcVars, reactVars>>

\* the index in bs of the box with this id, 0 when there is none
findIndex(bs, id) ==
    IF \E i \in 1..Len(bs) : bs[i].id = id
    THEN CHOOSE i \in 1..Len(bs) :
             bs[i].id = id /\ \A j \in 1..(i - 1) : bs[j].id # id
    ELSE 0

\* the box rotateSelected leaves in place of b (part_001:427-428)
rotated(b) ==
    clampBoxTo([b EXCEPT !.rot = IF b.rot = 0 THEN 90 ELSE 0], palletW, palletD)

\* rotateSelected (part_001:424-431); btnRotate click and the "r" key
RotateSelected ==
    LET i == IF selectedId # null THEN findIndex(boxes, selectedId) ELSE 0
    IN  /\ IF i # 0
           THEN /\ boxes' = [boxes EXCEPT ![i] = rotated(boxes[i])]
                /\ markDirty
           ELSE UNCHANGED <<boxes, dirty, rafScheduled, rafQueue, frameLog>>
        /\ alertMsg' = ""
        /\ UNCHANGED <<palletW, palletD, grid, nextId, selectedId, scale, panX,
                       panY, isDragging, isPanning, dragOffsetX, dragOffsetY,
                       lastPointerX, lastPointerY, canvas, palletWEl,
                       palletDEl, gridEl, jsonEl>>
        /\ UNCHANGED <<pointerCapture, plcVars, reactVars>>

\* boxes.filter(b => b.id !== id)
RECURSIVE without(_, _)
without(bs, id) ==
    IF bs = <<>> THEN <<>>
    ELSE IF Head(bs).id # id THEN <<Head(bs)>> \o without(Tail(bs), id)
    ELSE without(Tail(bs), id)

\* deleteSelected (part_001:433-439); btnDelete click, Delete and Backspace
DeleteSelected ==
    /\ IF selectedId # null
       THEN /\ boxes' = without(boxes, selectedId)
            /\ selectedId' = null
            /\ markDirty
       ELSE UNCHANGED <<boxes, selectedId, dirty, rafScheduled, rafQueue, frameLog>>
    /\ alertMsg' = ""
    /\ UNCHANGED <<palletW, palletD, grid, nextId, scale, panX, panY,
                   isDragging, isPanning, dragOffsetX, dragOffsetY,
                   lastPointerX, lastPointerY, canvas, palletWEl, palletDEl,
                   gridEl, jsonEl>>
    /\ UNCHANGED <<pointerCapture, plcVars, reactVars>>

\* btnClear click: clearAll() and jsonEl.value = "" (part_001:441-446, 517)
ClearAll ==
    /\ boxes' = <<>>
    /\ selectedId' = null
    /\ nextId' = 1
    /\ markDirty
    /\ jsonEl' = EmptyText
    /\ alertMsg' = ""
    /\ UNCHANGED <<palletW, palletD, grid, scale, panX, panY, isDragging,
                   isPanning, dragOffsetX, dragOffsetY, lastPointerX,
                   lastPointerY, canvas, palletWEl, palletDEl, gridEl>>
    /\ UNCHANGED <<pointerCapture, plcVars, reactVars>>

\* fitView (part_001:394-403); btnFit click and the "f" key
FitView ==
    /\ \E rect \in CanvasRects : scale' = fitScale(rect, palletW, palletD)
    /\ panX' = R(margin)
    /\ panY' = R(margin)
    /\ markDirty
    /\ alertMsg' = ""
    /\ UNCHANGED <<palletW, palletD, grid, boxes, nextId, selectedId,
                   isDragging, isPanning, dragOffsetX, dragOffsetY,
                   lastPointerX, lastPointerY, canvas, palletWEl, palletDEl,
                   gridEl, jsonEl>>
    /\ UNCHANGED <<pointerCapture, plcVars, reactVars>>

\* an importRecipe that numbers the boxes by their index in the list
importedBoxesFromZero(bs, g, pw, pd) ==
    [i \in 1..Len(bs) |->
        clampBoxTo([id |-> i - 1, x |-> snap(bs[i].x, g), y |-> snap(bs[i].y, g),
                    w |-> bs[i].w, d |-> bs[i].d,
                    rot |-> IF bs[i].rot = 90 THEN 90 ELSE 0], pw, pd)]

\* the boxes importRecipe builds from the recipe's list (part_001:466-477)
importedBoxes(bs, g, pw, pd) ==
    [i \in 1..Len(bs) |->
        clampBoxTo([id |-> i, x |-> snap(bs[i].x, g), y |-> snap(bs[i].y, g),
                    w |-> bs[i].w, d |-> bs[i].d,
                    rot |-> IF bs[i].rot = 90 THEN 90 ELSE 0], pw, pd)]

\* data.grid || 10
importedGrid(t) == IF t.grid # 0 THEN t.grid ELSE 10

\* the recipe check of importRecipe (part_001:458-459): TRUE when it throws
importRejects(t) == ~t.parses \/ t.w = 0 \/ t.d = 0

\* importRecipe(text) (part_001:456-484)
importRecipe(t) ==
    IF importRejects(t)
    THEN \* JSON.parse or the check threw: caught before any assignment
         /\ alertMsg' = "Import failed"
         /\ UNCHANGED <<palletW, palletD, grid, boxes, nextId, selectedId,
                        scale, panX, panY, dirty, rafScheduled, rafQueue, frameLog,
                        palletWEl, palletDEl, gridEl>>
    ELSE /\ palletW' = t.w
         /\ palletD' = t.d
         /\ grid' = importedGrid(t)
         /\ palletWEl' = t.w
         /\ palletDEl' = t.d
         /\ gridEl' = importedGrid(t)
         /\ IF ~t.boxesOk
            THEN \* the conversion of the list threw: caught after the
                 \* configuration was assigned
                 /\ alertMsg' = "Import failed"
                 /\ UNCHANGED <<boxes, nextId, scale, panX, panY, dirty,
                                rafScheduled, rafQueue, frameLog>>
            ELSE /\ boxes' = importedBoxes(t.boxes, importedGrid(t), t.w, t.d)
                 /\ nextId' = Len(t.boxes) + 1
                 /\ \E rect \in CanvasRects : scale' = fitScale(rect, t.w, t.d)
                 /\ panX' = R(margin)
                 /\ panY' = R(margin)
                 /\ markDirty
                 /\ alertMsg' = ""
         /\ UNCHANGED selectedId

\* btnImport click (part_001:516)
ImportClick ==
    /\ importRecipe(jsonEl)
    /\ UNCHANGED <<isDragging, isPanning, dragOffsetX, dragOffsetY,
                   lastPointerX, lastPointerY, canvas, jsonEl>>
    /\ UNCHANGED <<pointerCapture, plcVars, reactVars>>

\* btnExport click (part_001:515)
ExportClick ==
    /\ jsonEl' = JSONstringify(exportRecipe)
    /\ alertMsg' = ""
    /\ UNCHANGED <<palletW, palletD, grid, boxes, nextId, selectedId, scale,
                   panX, panY, isDragging, isPanning, dragOffsetX,
                   dragOffsetY, lastPointerX, lastPointerY, dirty,
                   rafScheduled, rafQueue, frameLog, canvas, palletWEl, palletDEl,
                   gridEl>>
    /\ UNCHANGED <<pointerCapture, plcVars, reactVars>>

\* the user replaces the text of the textarea (no handler runs)
TypeJson(t) ==
    /\ jsonEl # t
    /\ jsonEl' = t
    /\ UNCHANGED <<palletW, palletD, grid, boxes, nextId, selectedId, scale,
                   panX, panY, isDragging, isPanning, dragOffsetX,
                   dragOffsetY, lastPointerX, lastPointerY, dirty,
                   rafScheduled, rafQueue, frameLog, canvas, palletWEl, palletDEl,
                   gridEl, alertMsg>>
    /\ UNCHANGED <<pointerCapture, plcVars, reactVars>>

\* the loop of updateFromInputs (part_001:490-494) under grid g, pallet pw x pd
resnapped(bs, g, pw, pd) ==
    [i \in 1..Len(bs) |->
        clampBoxTo([bs[i] EXCEPT !.x = snap(bs[i].x, g), !.y = snap(bs[i].y, g)],
                   pw, pd)]

\* Number(el.value) || current
orCurrent(value, current) == IF value # 0 THEN value ELSE current

\* updateFromInputs (part_001:486-496) with the inputs holding wv, dv, gv
updateFromInputs(wv, dv, gv) ==
    LET pw == Max(100, orCurrent(wv, palletW))
        pd == Max(100, orCurrent(dv, palletD))
        g == Max(1, orCurrent(gv, grid))
    IN  /\ palletW' = pw
        /\ palletD' = pd
        /\ grid' = g
        /\ boxes' = resnapped(boxes, g, pw, pd)
        /\ markDirty

\* change event of one of the three config inputs (part_001:509)
ChangeInput(el, v) ==
    /\ palletWEl' = IF el = "palletW" THEN v ELSE palletWEl
    /\ palletDEl' = IF el = "palletD" THEN v ELSE palletDEl
    /\ gridEl' = IF el = "grid" THEN v ELSE gridEl
    /\ <<palletWEl', palletDEl', gridEl'>> # <<palletWEl, palletDEl, gridEl>>
    /\ updateFromInputs(palletWEl', palletDEl', gridEl')
    /\ alertMsg' = ""
    /\ UNCHANGED <<nextId, selectedId, scale, panX, panY, isDragging,
                   isPanning, dragOffsetX, dragOffsetY, lastPointerX,
                   lastPointerY, canvas, jsonEl>>
    /\ UNCHANGED <<pointerCapture, plcVars, reactVars>>

(***************************************************************************)
(* Canvas interaction (part_001:405-412, 498-505, 566-632).                *)
(***************************************************************************)
\* b's rotated rectangle contains (worldX, worldY) (part_001:409)
contains(b, worldX, worldY) ==
    LET dims == getDims(b)
    IN  /\ worldX >= b.x - dims.hw /\ worldX <= b.x + dims.hw
        /\ worldY >= b.y - dims.hd /\ worldY <= b.y + dims.hd

\* a hitTest that walks the collection from its first box
hitTestFirst(worldX, worldY) ==
    IF \E i \in 1..Len(boxes) : contains(boxes[i], worldX, worldY)
    THEN CHOOSE i \in 1..Len(boxes) :
             /\ contains(boxes[i], worldX, worldY)
             /\ \A j \in 1..(i - 1) : ~contains(boxes[j], worldX, worldY)
    ELSE 0

\* hitTest (part_001:405-412): the index of the box returned, 0 for null
hitTest(worldX, worldY) ==
    IF \E i \in 1..Len(boxes) : contains(boxes[i], worldX, worldY)
    THEN CHOOSE i \in 1..Len(boxes) :
             /\ contains(boxes[i], worldX, worldY)
             /\ \A j \in (i + 1)..Len(boxes) : ~contains(boxes[j], worldX, worldY)
    ELSE 0

\* pointerdown at the screen point over world point p (part_001:566-591);
\* setPointerCapture (part_001:567) takes the capture
PointerDown(p, button) ==
    LET s == worldToScreen(p[1], p[2])
        w == screenToWorld(s.x, s.y)
        hit == hitTest(RInt(w.x), RInt(w.y))
    IN  /\ lastPointerX' = s.x
        /\ lastPointerY' = s.y
        /\ IF button = 2
           THEN /\ isPanning' = TRUE
                /\ UNCHANGED <<selectedId, isDragging, dragOffsetX, dragOffsetY>>
           ELSE /\ IF hit # 0
                   THEN /\ selectedId' = boxes[hit].id
                        /\ isDragging' = TRUE
                        /\ dragOffsetX' = boxes[hit].x - RInt(w.x)
                        /\ dragOffsetY' = boxes[hit].y - RInt(w.y)
                   ELSE /\ selectedId' = null
                        /\ UNCHANGED <<isDragging, dragOffsetX, dragOffsetY>>
                /\ UNCHANGED isPanning
        /\ markDirty
        /\ alertMsg' = ""
        /\ UNCHANGED <<palletW, palletD, grid, boxes, nextId, scale, panX,
                       panY, canvas, palletWEl, palletDEl, gridEl, jsonEl>>
        /\ pointerCapture' = TRUE
        /\ UNCHANGED <<plcVars, reactVars>>

\* a drag that puts the centre of b under the pointer
draggedToPointer(b, wx, wy) ==
    clampBoxTo([b EXCEPT !.x = snap(wx, grid), !.y = snap(wy, grid)],
               palletW, palletD)

\* the box a drag leaves in place of b with the pointer at world (wx, wy)
dragged(b, wx, wy) ==
    clampBoxTo([b EXCEPT !.x = snap(wx + dragOffsetX, grid),
                         !.y = snap(wy + dragOffsetY, grid)], palletW, palletD)

\* a pointermove whose pan branch does not return: the drag branch runs too
PointerMoveThrough(p) ==
    LET s == worldToScreen(p[1], p[2])
        w == screenToWorld(s.x, s.y)
        i == IF isDragging /\ selectedId # null
             THEN findIndex(boxes, selectedId) ELSE 0
    IN  /\ IF isPanning
           THEN /\ panX' = RAdd(panX, RSub(s.x, lastPointerX))
                /\ panY' = RAdd(panY, RSub(s.y, lastPointerY))
                /\ lastPointerX' = s.x
                /\ lastPointerY' = s.y
           ELSE UNCHANGED <<panX, panY, lastPointerX, lastPointerY>>
        /\ IF i # 0
           THEN boxes' = [boxes EXCEPT
                            ![i] = dragged(boxes[i], RInt(w.x), RInt(w.y))]
           ELSE UNCHANGED boxes
        /\ IF isPanning \/ i # 0
           THEN markDirty
           ELSE UNCHANGED <<dirty, rafScheduled, rafQueue, frameLog>>
        /\ alertMsg' = ""
        /\ UNCHANGED <<palletW, palletD, grid, nextId, selectedId, scale,
                       isDragging, isPanning, dragOffsetX, dragOffsetY, canvas,
                       palletWEl, palletDEl, gridEl, jsonEl>>
        /\ UNCHANGED <<pointerCapture, plcVars, reactVars>>

\* pointermove to the screen point over world point p (part_001:593-617)
PointerMove(p) ==
    LET s == worldToScreen(p[1], p[2])
        w == screenToWorld(s.x, s.y)
        i == IF isDragging /\ selectedId # null
             THEN findIndex(boxes, selectedId) ELSE 0
    IN  /\ IF isPanning
           THEN /\ panX' = RAdd(panX, RSub(s.x, lastPointerX))
                /\ panY' = RAdd(panY, RSub(s.y, lastPointerY))
                /\ lastPointerX' = s.x
                /\ lastPointerY' = s.y
                /\ markDirty
                /\ UNCHANGED boxes
           ELSE /\ IF i # 0
                   THEN /\ boxes' = [boxes EXCEPT
                                       ![i] = dragged(boxes[i], RInt(w.x), RInt(w.y))]
                        /\ markDirty
                   ELSE UNCHANGED <<boxes, dirty, rafScheduled, rafQueue, frameLog>>
                /\ UNCHANGED <<panX, panY, lastPointerX, lastPointerY>>
        /\ alertMsg' = ""
        /\ UNCHANGED <<palletW, palletD, grid, nextId, selectedId, scale,
                       isDragging, isPanning, dragOffsetX, dragOffsetY, canvas,
                       palletWEl, palletDEl, gridEl, jsonEl>>
        /\ UNCHANGED <<pointerCapture, plcVars, reactVars>>

\* pointerup (part_001:619-624); releasePointerCapture (part_001:620)
PointerUp ==
    /\ isDragging' = FALSE
    /\ isPanning' = FALSE
    /\ markDirty
    /\ alertMsg' = ""
    /\ UNCHANGED <<palletW, palletD, grid, boxes, nextId, selectedId, scale,
                   panX, panY, dragOffsetX, dragOffsetY, lastPointerX,
                   lastPointerY, canvas, palletWEl, palletDEl, gridEl, jsonEl>>
    /\ pointerCapture' = FALSE
    /\ UNCHANGED <<plcVars, reactVars>>

\* pointercancel while the canvas holds the capture: no listener is registered
\* for it (part_001:566-646 register pointerdown, pointermove, pointerup,
\* wheel, dblclick and keydown only), and the browser drops the capture
PointerCancel ==
    /\ pointerCapture
    /\ pointerCapture' = FALSE
    /\ UNCHANGED <<palletW, palletD, grid, boxes, nextId, selectedId, scale,
                   panX, panY, isDragging, isPanning, dragOffsetX,
                   dragOffsetY, lastPointerX, lastPointerY, dirty,
                   rafScheduled, rafQueue, frameLog, canvas, palletWEl,
                   palletDEl, gridEl, jsonEl, alertMsg>>
    /\ UNCHANGED <<plcVars, reactVars>>

\* the wheel listener's factors 1.12 and 0.89 (part_001:631)
WheelFactors == {<<28, 25>>, <<89, 100>>}

\* clamp(scale * factor, 0.05, 4.0) (part_001:500)
zoomedScale(factor) == RMax(<<1, 20>>, RMin(<<4, 1>>, RMul(scale, factor)))

\* zoomAt (part_001:498-505)
zoomAt(sx, sy, factor) ==
    LET before == screenToWorld(sx, sy)
        newScale == zoomedScale(factor)
        after == [x |-> RDiv(RSub(sx, panX), newScale),
                  y |-> RDiv(RSub(sy, panY), newScale)]
    IN  /\ scale' = newScale
        /\ panX' = RAdd(panX, RMul(RSub(after.x, before.x), newScale))
        /\ panY' = RAdd(panY, RMul(RSub(after.y, before.y), newScale))
        /\ markDirty

\* wheel over the screen point of world point p (part_001:626-632)
Wheel(p, factor) ==
    LET s == worldToScreen(p[1], p[2])
    IN  /\ zoomAt(s.x, s.y, factor)
        /\ alertMsg' = ""
        /\ UNCHANGED <<palletW, palletD, grid, boxes, nextId, selectedId,
                       isDragging, isPanning, pointerCapture, dragOffsetX,
                       dragOffsetY, lastPointerX, lastPointerY, canvas,
                       palletWEl, palletDEl, gridEl, jsonEl>>
        /\ UNCHANGED <<plcVars, reactVars>>

\* the frame callback markDirty requested (part_001:292-295), with draw()
\* (part_001:375-390) and its resizeCanvasToCSSPixels (part_001:274-286)
Frame ==
    /\ rafQueue > 0
    /\ IF dirty
       THEN \E rect \in FrameRects :
                IF canvas # cssPixels(rect)
                THEN /\ canvas' = cssPixels(rect)
                     /\ dirty' = TRUE
                     /\ rafScheduled' = TRUE
                     /\ rafQueue' = rafQueue
                     /\ frameLog' = [marks |-> "one", saw |-> frameLog.marks,
                                     drew |-> TRUE]
                ELSE /\ dirty' = FALSE
                     /\ rafScheduled' = FALSE
                     /\ rafQueue' = rafQueue - 1
                     /\ frameLog' = [marks |-> "none", saw |-> frameLog.marks,
                                     drew |-> TRUE]
                     /\ UNCHANGED canvas
       ELSE /\ rafScheduled' = FALSE
            /\ rafQueue' = rafQueue - 1
            /\ frameLog' = [marks |-> "none", saw |-> frameLog.marks, drew |-> FALSE]
            /\ UNCHANGED <<dirty, canvas>>
    /\ UNCHANGED <<palletW, palletD, grid, boxes, nextId, selectedId, scale,
                   panX, panY, isDragging, isPanning, dragOffsetX,
                   dragOffsetY, lastPointerX, lastPointerY, palletWEl,
                   palletDEl, gridEl, jsonEl, alertMsg>>
    /\ UNCHANGED <<pointerCapture, plcVars, reactVars>>

(***************************************************************************)
(* PlcManager (part_001:101-239) over AuthService (auth.services.ts:4-93). *)
(* The transport (ApiLogin, PlcProgramWrite, PlcProgramRead of the Siemens *)
(* web API package) is the environment: a call is outstanding in           *)
(* `pending` until the transport resolves or rejects it.                   *)
(***************************************************************************)
\* no token: null in the code, tested by truthiness
NoToken == ""

\* a getAuthToken that hands out a token whether or not one was obtained
getAuthTokenAlways == IF authToken # NoToken THEN authToken ELSE "anonymous"

\* AuthService.getAuthToken (auth.services.ts:88-92)
getAuthToken == IF authToken # NoToken THEN authToken ELSE storedToken

\* one entry of a bulk request
Tag(name, idx, field) == [name |-> name, idx |-> idx, field |-> field]
WriteParam(tag, value) == [var |-> tag, value |-> value, mode |-> "simple"]
ReadParam(tag) == [var |-> tag, mode |-> "simple"]

\* the five entries writePattern pushes for the box at 0-based index i
\* (part_001:181-192); Math.round is the identity on the model's integers
boxParams(b, i) ==
    <<WriteParam(Tag("web_data", i + 1, "x"), b.x),
      WriteParam(Tag("web_data", i + 1, "y"), b.y),
      WriteParam(Tag("web_data", i + 1, "w"), b.w),
      WriteParam(Tag("web_data", i + 1, "d"), b.d),
      WriteParam(Tag("web_data", i + 1, "rot"), b.rot)>>

RECURSIVE boxesParams(_, _)
boxesParams(bs, i) ==
    IF i >= Len(bs) THEN <<>>
    ELSE boxParams(bs[i + 1], i) \o boxesParams(bs, i + 1)

\* a paramsArray led by four header entries, the count the fourth
writeParamsArrayWithHeader(bs) ==
    <<WriteParam(Tag("PatternConfig.productDimension.height", 0, ""), 200),
      WriteParam(Tag("PatternConfig.layers", 0, ""), 1),
      WriteParam(Tag("useWebPattern", 0, ""), 1),
      WriteParam(Tag("web_ProductCount", 0, ""), Len(bs))>> \o boxesParams(bs, 0)

\* paramsArray of writePattern (part_001:171-192)
writeParamsArray(bs) ==
    <<WriteParam(Tag("BoxCount", 0, ""), Len(bs))>> \o boxesParams(bs, 0)

\* the slot indices readPattern requests (part_001:219-220)
numberOfRows == 20
readRows == {i \in 1..numberOfRows : i < numberOfRows}

\* the five entries readPattern pushes for slot i (part_001:221-226)
slotParams(i) ==
    <<ReadParam(Tag("web_data", i, "l")), ReadParam(Tag("web_data", i, "w")),
      ReadParam(Tag("web_data", i, "rot")), ReadParam(Tag("web_data", i, "x")),
      ReadParam(Tag("web_data", i, "y"))>>

RECURSIVE slotsParams(_)
slotsParams(i) ==
    IF i \notin readRows THEN <<>> ELSE slotParams(i) \o slotsParams(i + 1)

\* paramsArray of readPattern (part_001:218-227)
readParamsArray == slotsParams(1)

NoCall == [called |-> FALSE]

\* a call of readPattern or writePattern that has returned: failed when it
\* had no token or when bulkExecute threw
Returned(op, by, failed) == [op |-> op, by |-> by, failed |-> failed]
NoneReturned == Returned("none", "none", FALSE)

\* a transfer in flight
Transfer(op, by) == [op |-> op, by |-> by]

\* btnDoLogin click (part_001:524-532): the login request goes out.  The
\* dialog opens from btnPlcLogin, disabled once a login succeeded (538).
LoginClick ==
    /\ authToken = NoToken
    /\ Len(pending) < MaxPending
    /\ plcStatus' = "Connecting..."
    /\ pending' = Append(pending, Transfer("login", "user"))
    /\ UNCHANGED <<authToken, storedToken, pollingSubscription,
                   subscriptions, lastWrite,
                   lastRead, lastDone>>
    /\ UNCHANGED <<editorVars, reactVars, communicator>>

\* pending without its k-th element
dropAt(q, k) == [i \in 1..(Len(q) - 1) |-> IF i < k THEN q[i] ELSE q[i + 1]]

\* the login request answers (auth.services.ts:20-63, part_001:533-542);
\* the window.alert of a failed login is not part of the state
LoginDone(k, ok) ==
    /\ k \in 1..Len(pending)
    /\ pending[k].op = "login"
    /\ pending' = dropAt(pending, k)
    /\ IF ok
       THEN /\ authToken' = "token"
            /\ storedToken' = "token"
            /\ plcStatus' = "Connected"
       ELSE /\ plcStatus' = "Login Failed"
            /\ UNCHANGED <<authToken, storedToken>>
    /\ UNCHANGED <<pollingSubscription,
                   subscriptions, lastWrite, lastRead, lastDone>>
    /\ UNCHANGED <<editorVars, reactVars, communicator>>

\* a writePattern that sends the count in one call and the boxes in another
WriteClickTwoCalls ==
    LET token == getAuthToken
    IN  /\ token # NoToken
        /\ Len(pending) + 1 < MaxPending
        /\ lastWrite' = [called |-> TRUE, token |-> token, boxes |-> boxes,
                         invoked |-> TRUE, sent |-> writeParamsArray(boxes),
                         result |-> "awaiting"]
        /\ plcStatus' = "Writing..."
        /\ pending' = pending \o <<Transfer("write", "user"),
                                    Transfer("write", "user")>>
        /\ UNCHANGED <<authToken, storedToken, pollingSubscription,
                       subscriptions, lastRead,
                       lastDone>>
        /\ UNCHANGED <<editorVars, reactVars, communicator>>

\* btnPlcWrite click (part_001:545-547) up to the await of bulkExecute
\* (part_001:154-201); without a token the call returns false at once.
\* index.html is not among the sources: the button is taken to be usable.
WriteClick ==
    LET token == getAuthToken
    IN  IF token = NoToken
        THEN /\ lastWrite' = [called |-> TRUE, token |-> token,
                              boxes |-> boxes, invoked |-> FALSE,
                              sent |-> <<>>, result |-> "false"]
             /\ plcStatus' = "Write Failed"
             /\ lastDone' = Returned("write", "user", TRUE)
             /\ UNCHANGED <<authToken, storedToken, pollingSubscription,
                            subscriptions,
                            pending, lastRead>>
             /\ UNCHANGED <<editorVars, reactVars, communicator>>
        ELSE /\ Len(pending) < MaxPending
             /\ lastWrite' = [called |-> TRUE, token |-> token,
                              boxes |-> boxes, invoked |-> TRUE,
                              sent |-> writeParamsArray(boxes),
                              result |-> "awaiting"]
             /\ plcStatus' = "Writing..."
             /\ pending' = Append(pending, Transfer("write", "user"))
             /\ UNCHANGED lastDone
             /\ UNCHANGED <<authToken, storedToken, pollingSubscription,
                            subscriptions,
                            lastRead>>
             /\ UNCHANGED <<editorVars, reactVars, communicator>>

\* bulkExecute of a write resolves or throws (part_001:201-206, 548-554)
WriteDone(k, ok) ==
    /\ k \in 1..Len(pending)
    /\ pending[k].op = "write"
    /\ pending' = dropAt(pending, k)
    /\ plcStatus' = IF ok THEN "Write Success" ELSE "Write Failed"
    /\ lastDone' = Returned("write", "user", ~ok)
    /\ UNCHANGED <<authToken, storedToken, pollingSubscription,
                   subscriptions, lastWrite,
                   lastRead>>
    /\ UNCHANGED <<editorVars, reactVars, communicator>>

\* readPattern up to the await of bulkExecute (part_001:209-230), called by
\* the read button ("user") or by the polling interval ("poll")
readPattern(by) ==
    LET token == getAuthToken
    IN  IF token = NoToken
        THEN /\ lastRead' = [called |-> TRUE, token |-> token, by |-> by,
                             invoked |-> FALSE, requested |-> <<>>]
             /\ lastDone' = Returned("read", by, TRUE)
             /\ UNCHANGED pending
        ELSE /\ Len(pending) < MaxPending
             /\ lastRead' = [called |-> TRUE, token |-> token, by |-> by,
                             invoked |-> TRUE, requested |-> readParamsArray]
             /\ pending' = Append(pending, Transfer("read", by))
             /\ UNCHANGED lastDone

\* btnPlcRead click (part_001:557-563): readPattern returns an array on
\* every path, so the handler reports success
ReadClick ==
    /\ readPattern("user")
    /\ plcStatus' = IF getAuthToken = NoToken THEN "Read Success" ELSE "Reading..."
    /\ UNCHANGED <<authToken, storedToken, pollingSubscription,
                   subscriptions, lastWrite>>
    /\ UNCHANGED <<editorVars, reactVars, communicator>>

\* one tick of interval(2000) under switchMap (part_001:135-144)
PollTick ==
    /\ subscriptions > 0
    /\ readPattern("poll")
    /\ UNCHANGED <<authToken, storedToken, pollingSubscription,
                   subscriptions, plcStatus,
                   lastWrite>>
    /\ UNCHANGED <<editorVars, reactVars, communicator>>

\* bulkExecute of a read resolves or throws (part_001:230-237, 560-562)
ReadDone(k, ok) ==
    /\ k \in 1..Len(pending)
    /\ pending[k].op = "read"
    /\ pending' = dropAt(pending, k)
    /\ plcStatus' = IF pending[k].by = "user" THEN "Read Success" ELSE plcStatus
    /\ lastDone' = Returned("read", pending[k].by, ~ok)
    /\ UNCHANGED <<authToken, storedToken, pollingSubscription,
                   subscriptions, lastWrite,
                   lastRead>>
    /\ UNCHANGED <<editorVars, reactVars, communicator>>

(***************************************************************************)
(* PlcCommunicator (part_002:86-167), the transport of the first canvas    *)
(* editor: one fetch per tag, no login.  writeTag (95-125) returns false   *)
(* when the reply is not ok or the fetch throws; it never throws itself.   *)
(* writePattern (128-164) reads the array it was passed, which the Add     *)
(* button's push changes in place.                                         *)
(***************************************************************************)
NoWrite ==
    [running |-> FALSE, disabled |-> FALSE, idx |-> 0, outstanding |-> {},
     failed |-> FALSE, succeeded |-> FALSE]

\* the tags of one Promise.all (part_002:148-154)
BoxFields == {"x", "y", "w", "d", "rot"}

commUnchanged == UNCHANGED <<authToken, storedToken, pollingSubscription,
                             subscriptions,
                             pending, lastWrite, lastRead, lastDone>>

\* btnPlcWrite click (part_002:489-491) up to the first await: the status,
\* the button and the fetch of the count tag (part_002:129-135)
CommWriteClick ==
    /\ ~communicator.disabled
    /\ plcStatus' = "Writing..."
    /\ communicator' = [running |-> TRUE, disabled |-> TRUE, idx |-> 0,
                        outstanding |-> {"BoxCount"}, failed |-> FALSE,
                        succeeded |-> FALSE]
    /\ commUnchanged
    /\ UNCHANGED <<editorVars, reactVars>>

\* the fetch of one tag settles: writeTag returns ok (part_002:114-124).
\* When it was the last one awaited, writePattern goes on to the next box
\* (part_002:140-155) or ends (part_002:157-163); no return value is read.
CommTagDone(tag, ok) ==
    LET rest == communicator.outstanding \ {tag}
        failed == communicator.failed \/ ~ok
        succeeded == communicator.succeeded \/ ok
    IN  /\ communicator.running
        /\ tag \in communicator.outstanding
        /\ IF rest # {}
           THEN /\ communicator' = [communicator EXCEPT !.outstanding = rest,
                                                        !.failed = failed,
                                                        !.succeeded = succeeded]
                /\ UNCHANGED plcStatus
           ELSE IF communicator.idx < Len(boxes)
           THEN /\ communicator' = [communicator EXCEPT !.idx = @ + 1,
                                       !.outstanding = BoxFields,
                                       !.failed = failed,
                                       !.succeeded = succeeded]
                /\ UNCHANGED plcStatus
           ELSE /\ communicator' = [communicator EXCEPT !.running = FALSE,
                                       !.disabled = FALSE,
                                       !.outstanding = {},
                                       !.failed = failed,
                                       !.succeeded = succeeded]
                /\ plcStatus' = "Success"
        /\ commUnchanged
        /\ UNCHANGED <<editorVars, reactVars>>

(***************************************************************************)
(* The React editor PalletEditor (auth.services.ts:238-360) and its copy   *)
(* in part_002:2530-2650, which differ in addBox and in the hook.  Each    *)
(* handler runs on the state of the latest render.  The box form is left   *)
(* at its initial 300 x 200.                                               *)
(***************************************************************************)
Builds == {"auth.services", "part_002"}

\* dragStart, dragOffset = null
NoPoint == <<>>
\* no operation of the hook is awaited; ended names the one that returned last
Ended(op) == [op |-> "none", ended |-> op]
NoOp == Ended("none")

defaultBoxDims == [w |-> 300, d |-> 200]

\* auth.services.ts:164
MAX_BOXES == 20

\* addBox (auth.services.ts:271-284; part_002:2560-2573 alerts at the limit)
addBox ==
    IF Len(rBoxes) >= MAX_BOXES
    THEN /\ rAlertMsg' = IF build = "part_002" THEN "Limit reached" ELSE ""
         /\ UNCHANGED <<rBoxes, selectedIds, rNextId>>
    ELSE /\ rBoxes' = Append(rBoxes,
                        [id |-> rNextId,
                         x |-> snap(Half(config.width), config.grid),
                         y |-> snap(Half(config.depth), config.grid),
                         w |-> defaultBoxDims.w, d |-> defaultBoxDims.d,
                         rot |-> 0])
         /\ selectedIds' = {rNextId}
         /\ rNextId' = rNextId + 1
         /\ rAlertMsg' = ""

\* constrainBox (auth.services.ts:299-303)
constrainBox(b) ==
    LET hw == Half(IF b.rot = 0 THEN b.w ELSE b.d)
        hd == Half(IF b.rot = 0 THEN b.d ELSE b.w)
    IN  [b EXCEPT !.x = clamp(b.x, hw, config.width - hw),
                  !.y = clamp(b.y, hd, config.depth - hd)]

\* boxes.map(b => selectedIds.includes(b.id) ? updater(b) : b) for the two
\* updaters of the component (auth.services.ts:286-292, 327)
rotatedSelected ==
    [i \in 1..Len(rBoxes) |->
        IF rBoxes[i].id \in selectedIds
        THEN constrainBox([rBoxes[i] EXCEPT !.rot = IF rBoxes[i].rot = 0 THEN 90 ELSE 0])
        ELSE rBoxes[i]]

movedSelected(rawX, rawY) ==
    [i \in 1..Len(rBoxes) |->
        IF rBoxes[i].id \in selectedIds
        THEN constrainBox([rBoxes[i] EXCEPT !.x = snap(rawX, config.grid),
                                            !.y = snap(rawY, config.grid)])
        ELSE rBoxes[i]]

\* boxes.filter(b => !selectedIds.includes(b.id))
RECURSIVE unselected(_)
unselected(bs) ==
    IF bs = <<>> THEN <<>>
    ELSE IF Head(bs).id \notin selectedIds THEN <<Head(bs)>> \o unselected(Tail(bs))
    ELSE unselected(Tail(bs))

\* what a handler of the editing part leaves alone
editUnchanged == UNCHANGED <<build, connectionStatus, opStatus, connectTimers,
                             successTimers, rPending>>

\* "Add New Box" click (auth.services.ts:449)
AddBoxClick ==
    /\ addBox
    /\ UNCHANGED <<config, view, rIsDragging, dragStart, dragOffset>>
    /\ editUnchanged
    /\ UNCHANGED <<editorVars, plcVars>>

\* Rotate click, enabled while something is selected (auth.services.ts:455)
RotateClick ==
    /\ selectedIds # {}
    /\ rBoxes' = rotatedSelected
    /\ rAlertMsg' = ""
    /\ UNCHANGED <<config, rNextId, selectedIds, view, rIsDragging, dragStart,
                   dragOffset>>
    /\ editUnchanged
    /\ UNCHANGED <<editorVars, plcVars>>

\* Delete click, enabled while something is selected (auth.services.ts:459)
DeleteClick ==
    /\ selectedIds # {}
    /\ rBoxes' = unselected(rBoxes)
    /\ selectedIds' = {}
    /\ rAlertMsg' = ""
    /\ UNCHANGED <<config, rNextId, view, rIsDragging, dragStart, dragOffset>>
    /\ editUnchanged
    /\ UNCHANGED <<editorVars, plcVars>>

\* "Clear All" click: setBoxes([]) (auth.services.ts:525)
ClearAllClick ==
    /\ rBoxes' = <<>>
    /\ rAlertMsg' = ""
    /\ UNCHANGED <<config, rNextId, selectedIds, view, rIsDragging, dragStart,
                   dragOffset>>
    /\ editUnchanged
    /\ UNCHANGED <<editorVars, plcVars>>

\* change of the Width, Depth or Grid Snap input (auth.services.ts:418-426)
ConfigChange(field, v) ==
    /\ config' = [config EXCEPT ![field] = v]
    /\ config' # config
    /\ rAlertMsg' = ""
    /\ UNCHANGED <<rBoxes, rNextId, selectedIds, view, rIsDragging, dragStart,
                   dragOffset>>
    /\ editUnchanged
    /\ UNCHANGED <<editorVars, plcVars>>

\* fitView (auth.services.ts:346-349) for the configuration c
fittedView(c) ==
    [x |-> -100, y |-> -100, w |-> c.width + 100 * 2, h |-> c.depth + 100 * 2]

\* "Fit View" click (auth.services.ts:521)
FitViewClick ==
    /\ view' = fittedView(config)
    /\ rAlertMsg' = ""
    /\ UNCHANGED <<config, rBoxes, rNextId, selectedIds, rIsDragging,
                   dragStart, dragOffset>>
    /\ editUnchanged
    /\ UNCHANGED <<editorVars, plcVars>>

\* zoomFactor of handleWheel, 1.1 and 0.9 (auth.services.ts:338)
zoomFactors == {<<11, 10>>, <<9, 10>>}

\* handleWheel (auth.services.ts:337-344): the viewBox scaled about its centre
wheeledView(v, zoomFactor) ==
    LET newW == RMul(R(v.w), zoomFactor)
        newH == RMul(R(v.h), zoomFactor)
        dx == RDiv(RSub(R(v.w), newW), R(2))
        dy == RDiv(RSub(R(v.h), newH), R(2))
    IN  [x |-> RInt(RAdd(R(v.x), dx)), y |-> RInt(RAdd(R(v.y), dy)),
         w |-> RInt(newW), h |-> RInt(newH)]

\* wheel over the svg (auth.services.ts:543)
handleWheel(zoomFactor) ==
    /\ view' = wheeledView(view, zoomFactor)
    /\ rAlertMsg' = ""
    /\ UNCHANGED <<config, rBoxes, rNextId, selectedIds, rIsDragging,
                   dragStart, dragOffset>>
    /\ editUnchanged
    /\ UNCHANGED <<editorVars, plcVars>>

\* Zoom In and Zoom Out clicks: w and h times 0.9 or 1.1, x and y kept
\* (auth.services.ts:522-523)
ZoomClick(zoomFactor) ==
    /\ view' = [view EXCEPT !.w = RInt(RMul(R(view.w), zoomFactor)),
                            !.h = RInt(RMul(R(view.h), zoomFactor))]
    /\ rAlertMsg' = ""
    /\ UNCHANGED <<config, rBoxes, rNextId, selectedIds, rIsDragging,
                   dragStart, dragOffset>>
    /\ editUnchanged
    /\ UNCHANGED <<editorVars, plcVars>>

\* the zoom the info bar shows, 1400 / view.w (auth.services.ts:532)
shownZoom(v) == RNorm(1400, v.w)

\* getScreenCTM of an svg of rect with the viewBox v and the default
\* preserveAspectRatio (auth.services.ts:536-538): uniform scale a, the
\* viewBox centred in the element
screenCTM(rect, v) ==
    LET a == RMin(RNorm(rect.width, v.w), RNorm(rect.height, v.h))
    IN  [a |-> a,
         e |-> RSub(RDiv(RSub(R(rect.width), RMul(R(v.w), a)), R(2)), RMul(R(v.x), a)),
         f |-> RSub(RDiv(RSub(R(rect.height), RMul(R(v.h), a)), R(2)), RMul(R(v.y), a))]

\* getMousePos (auth.services.ts:264-269) for a pointer at client (cx, cy)
getMousePos(rect, v, cx, cy) ==
    LET CTM == screenCTM(rect, v)
    IN  [x |-> RDiv(RSub(R(cx), CTM.e), CTM.a),
         y |-> RDiv(RSub(R(cy), CTM.f), CTM.a)]

\* the rectangle the component draws for b contains pos (auth.services.ts:570-584)
drawnOver(b, pos) ==
    LET w == IF b.rot = 0 THEN b.w ELSE b.d
        h == IF b.rot = 0 THEN b.d ELSE b.w
    IN  /\ pos[1] >= b.x - Half(w) /\ pos[1] <= b.x + Half(w)
        /\ pos[2] >= b.y - Half(h) /\ pos[2] <= b.y + Half(h)

\* the index of the box whose onPointerDown receives a press at pos: the
\* one drawn last among those under pos; 0 when the press is the svg's
boxUnder(pos) ==
    IF \E i \in 1..Len(rBoxes) : drawnOver(rBoxes[i], pos)
    THEN CHOOSE i \in 1..Len(rBoxes) :
             /\ drawnOver(rBoxes[i], pos)
             /\ \A j \in (i + 1)..Len(rBoxes) : ~drawnOver(rBoxes[j], pos)
    ELSE 0

\* handlePointerDown (auth.services.ts:305-319) with getMousePos giving pos
handlePointerDown(pos) ==
    LET hit == boxUnder(pos)
    IN  /\ rIsDragging' = TRUE
        /\ IF hit # 0
           THEN /\ selectedIds' = {rBoxes[hit].id}
                /\ dragOffset' = <<rBoxes[hit].x - pos[1], rBoxes[hit].y - pos[2]>>
                /\ UNCHANGED dragStart
           ELSE /\ dragStart' = pos
                /\ selectedIds' = {}
                /\ UNCHANGED dragOffset
        /\ rAlertMsg' = ""
        /\ UNCHANGED <<config, rBoxes, rNextId, view>>
        /\ editUnchanged
        /\ UNCHANGED <<editorVars, plcVars>>

\* handlePointerMove (auth.services.ts:321-333) with getMousePos giving pos
handlePointerMove(pos) ==
    /\ IF ~rIsDragging
       THEN UNCHANGED <<rBoxes, view>>
       ELSE IF selectedIds # {} /\ dragOffset # NoPoint
       THEN /\ rBoxes' = movedSelected(pos[1] + dragOffset[1], pos[2] + dragOffset[2])
            /\ UNCHANGED view
       ELSE IF dragStart # NoPoint
       THEN /\ view' = [view EXCEPT !.x = view.x + (dragStart[1] - pos[1]),
                                    !.y = view.y + (dragStart[2] - pos[2])]
            /\ UNCHANGED rBoxes
       ELSE UNCHANGED <<rBoxes, view>>
    /\ rAlertMsg' = ""
    /\ UNCHANGED <<config, rNextId, selectedIds, rIsDragging, dragStart,
                   dragOffset>>
    /\ editUnchanged
    /\ UNCHANGED <<editorVars, plcVars>>

\* handlePointerUp (auth.services.ts:335); pointerup and pointerleave
handlePointerUp ==
    /\ rIsDragging' = FALSE
    /\ dragStart' = NoPoint
    /\ dragOffset' = NoPoint
    /\ rAlertMsg' = ""
    /\ UNCHANGED <<config, rBoxes, rNextId, selectedIds, view>>
    /\ editUnchanged
    /\ UNCHANGED <<editorVars, plcVars>>

(***************************************************************************)
(* usePlcCommunication (auth.services.ts:172-235; part_002:2455-2530).     *)
(* The hook simulates the transport with timers and a literal reply; the   *)
(* reply and its failure are the environment's here.                       *)
(***************************************************************************)
\* what a handler of the hook leaves alone
hookUnchanged == UNCHANGED <<build, config, rNextId, selectedIds, rIsDragging,
                             dragStart, dragOffset>>

\* handleLoginSubmit -> connect (auth.services.ts:177-185, 351-355); the
\* Connect button shows while the status is not 'connected' (394)
plc_connect ==
    /\ connectionStatus # "connected"
    /\ connectTimers < MaxPending
    /\ connectionStatus' = "connecting"
    /\ connectTimers' = connectTimers + 1
    /\ rAlertMsg' = ""
    /\ UNCHANGED <<rBoxes, view, opStatus, successTimers, rPending>>
    /\ hookUnchanged
    /\ UNCHANGED <<editorVars, plcVars>>

\* the 800 ms timer of connect fires (auth.services.ts:180-183)
ConnectTimer ==
    /\ connectTimers > 0
    /\ connectTimers' = connectTimers - 1
    /\ connectionStatus' = "connected"
    /\ UNCHANGED <<rBoxes, view, opStatus, successTimers, rPending, rAlertMsg>>
    /\ hookUnchanged
    /\ UNCHANGED <<editorVars, plcVars>>

\* Disconnect click -> disconnect (auth.services.ts:187-190, 394)
plc_disconnect ==
    /\ connectionStatus = "connected"
    /\ connectionStatus' = "disconnected"
    /\ rAlertMsg' = ""
    /\ UNCHANGED <<rBoxes, view, opStatus, connectTimers, successTimers, rPending>>
    /\ hookUnchanged
    /\ UNCHANGED <<editorVars, plcVars>>

\* a slot of the PLC's reply
RawSlot(x, y, w, l, rot) == [x |-> x, y |-> y, w |-> w, l |-> l, rot |-> rot]

\* mockPlcResponse.map(...) of auth.services.ts:219-222
parsedBoxes(resp) ==
    [i \in 1..Len(resp) |->
        [id |-> i, x |-> resp[i].x, y |-> resp[i].y, w |-> resp[i].w,
         d |-> resp[i].l, rot |-> resp[i].rot]]

\* .filter(b => b.w > 0 && b.d > 0) of part_002:2516
RECURSIVE populated(_)
populated(bs) ==
    IF bs = <<>> THEN <<>>
    ELSE IF Head(bs).w > 0 /\ Head(bs).d > 0
         THEN <<Head(bs)>> \o populated(Tail(bs))
         ELSE populated(Tail(bs))

\* what readPattern returns for the reply resp in the running copy
readResult(resp) ==
    IF build = "part_002" THEN populated(parsedBoxes(resp)) ELSE parsedBoxes(resp)

\* Math.max(...data.map(b => b.id), 0)
maxId(bs) ==
    IF bs = <<>> THEN 0
    ELSE CHOOSE m \in {bs[i].id : i \in 1..Len(bs)} :
             \A i \in 1..Len(bs) : bs[i].id <= m

\* Read click, enabled while connected and idle: handleRead -> readPattern
\* up to its await (auth.services.ts:209-213, 357-358, 495-497).  The
\* fitView that handleRead calls later is the one of this render.
ReadStart ==
    /\ connectionStatus = "connected" /\ opStatus = "idle"
    /\ opStatus' = "reading"
    /\ rPending' = [op |-> "read", config |-> config]
    /\ rAlertMsg' = ""
    /\ UNCHANGED <<rBoxes, view, connectionStatus, connectTimers, successTimers>>
    /\ hookUnchanged
    /\ UNCHANGED <<editorVars, plcVars>>

\* a handleRead that replaces the collection whatever readPattern returned
ReadEndReplacing(ok, resp) ==
    /\ rPending.op = "read"
    /\ rPending' = Ended("read")
    /\ opStatus' = IF ok THEN "success" ELSE "error"
    /\ successTimers' = IF ok THEN successTimers + 1 ELSE successTimers
    /\ rBoxes' = readResult(resp)
    /\ rNextId' = maxId(readResult(resp)) + 1
    /\ view' = fittedView(rPending.config)
    /\ UNCHANGED <<build, config, selectedIds, rIsDragging, dragStart,
                   dragOffset, connectionStatus, connectTimers, rAlertMsg>>
    /\ UNCHANGED <<editorVars, plcVars>>

\* the read resolves with the reply resp (auth.services.ts:214-226,
\* 358-359), or throws (227-231)
ReadEnd(ok, resp) ==
    /\ rPending.op = "read"
    /\ rPending' = Ended("read")
    /\ IF ok
       THEN /\ opStatus' = "success"
            /\ successTimers' = successTimers + 1
            /\ rBoxes' = readResult(resp)
            /\ rNextId' = maxId(readResult(resp)) + 1
            /\ view' = fittedView(rPending.config)
       ELSE /\ opStatus' = "error"
            /\ UNCHANGED <<successTimers, rBoxes, rNextId, view>>
    /\ UNCHANGED <<build, config, selectedIds, rIsDragging, dragStart,
                   dragOffset, connectionStatus, connectTimers, rAlertMsg>>
    /\ UNCHANGED <<editorVars, plcVars>>

\* Write click, enabled while connected and idle: writePattern up to its
\* await (auth.services.ts:192-197, 504-506)
WriteStart ==
    /\ connectionStatus = "connected" /\ opStatus = "idle"
    /\ opStatus' = "writing"
    /\ rPending' = [op |-> "write"]
    /\ rAlertMsg' = ""
    /\ UNCHANGED <<rBoxes, view, connectionStatus, connectTimers, successTimers>>
    /\ hookUnchanged
    /\ UNCHANGED <<editorVars, plcVars>>

\* the write resolves (auth.services.ts:198-201) or throws (202-206)
WriteEnd(ok) ==
    /\ rPending.op = "write"
    /\ rPending' = Ended("write")
    /\ IF ok
       THEN /\ opStatus' = "success"
            /\ successTimers' = successTimers + 1
       ELSE /\ opStatus' = "error"
            /\ UNCHANGED successTimers
    /\ UNCHANGED <<rBoxes, view, connectionStatus, connectTimers, rAlertMsg>>
    /\ hookUnchanged
    /\ UNCHANGED <<editorVars, plcVars>>

\* setTimeout(() => setOpStatus('idle'), 2000) fires (auth.services.ts:200, 225)
SuccessTimer ==
    /\ successTimers > 0
    /\ successTimers' = successTimers - 1
    /\ opStatus' = "idle"
    /\ UNCHANGED <<rBoxes, view, connectionStatus, connectTimers, rPending,
                   rAlertMsg>>
    /\ hookUnchanged
    /\ UNCHANGED <<editorVars, plcVars>>

(***************************************************************************)
(* Initial state: the module-level values (part_001:75-97), then           *)
(* updateFromInputs(), fitView(), draw() and viteOnInit()                  *)
(* (part_001:648-653).  index.html is not among the sources: the config    *)
(* inputs start without a usable number, so the defaults stand.            *)
(***************************************************************************)
EditorInit ==
    /\ palletWEl = 0 /\ palletDEl = 0 /\ gridEl = 0
    /\ palletW = Max(100, orCurrent(palletWEl, 1200))
    /\ palletD = Max(100, orCurrent(palletDEl, 800))
    /\ grid = Max(1, orCurrent(gridEl, 20))
    /\ boxes = <<>> /\ nextId = 1 /\ selectedId = null
    /\ \E rect \in CanvasRects :
          /\ scale = fitScale(rect, palletW, palletD)
          /\ canvas = cssPixels(rect)
    /\ panX = R(margin) /\ panY = R(margin)
    /\ isDragging = FALSE /\ isPanning = FALSE
    /\ pointerCapture = FALSE
    /\ dragOffsetX = 0 /\ dragOffsetY = 0
    /\ lastPointerX = R(0) /\ lastPointerY = R(0)
    /\ dirty = TRUE /\ rafScheduled = TRUE /\ rafQueue = 1
    /\ frameLog = [marks |-> "one", saw |-> "none", drew |-> FALSE]
    /\ jsonEl = EmptyText
    /\ alertMsg = ""

StoredTokens == {NoToken, "token"}

\* sessionStorage outlives a reload of the page: a token of an earlier
\* login may be stored (auth.services.ts:26-31, 88-92)
PlcInit ==
    /\ authToken = NoToken
    /\ storedToken \in StoredTokens
    /\ pollingSubscription = TRUE
    /\ subscriptions = 1
    /\ plcStatus = ""
    /\ pending = <<>>
    /\ lastWrite = NoCall
    /\ lastRead = NoCall
    /\ lastDone = NoneReturned
    /\ communicator = NoWrite

(***************************************************************************)
(* Initial state of the React editor (auth.services.ts:173-175, 239-257).  *)
(***************************************************************************)
ReactInit ==
    /\ build \in Builds
    /\ config = [width |-> 1200, depth |-> 800, grid |-> 50]
    /\ rBoxes = <<>> /\ rNextId = 1 /\ selectedIds = {}
    /\ view = [x |-> -100, y |-> -100, w |-> 1400, h |-> 1000]
    /\ rIsDragging = FALSE /\ dragStart = NoPoint /\ dragOffset = NoPoint
    /\ connectionStatus = "disconnected" /\ opStatus = "idle"
    /\ connectTimers = 0
    /\ successTimers = 0
    /\ rPending = NoOp
    /\ rAlertMsg = ""

\* the canvas editor as first loaded: nothing stored by an earlier session
Init ==
    /\ EditorInit
    /\ PlcInit /\ storedToken = NoToken
    /\ ReactInit /\ build = "auth.services"

(***************************************************************************)
(* The canvas editor: the handlers that change the pallet, the grid, the   *)
(* boxes or the selection (part_001:509-517, 566-646).  The view handlers  *)
(* (fit, pan, frame callback) run under SpecView.                          *)
(***************************************************************************)
\* texts the user may put into the textarea
JsonInputs ==
    {RecipeText(TRUE, -200, 500, 10, TRUE, <<>>),
     RecipeText(TRUE, 500, 500, 10, FALSE, <<>>),
     RecipeText(TRUE, 500, 500, 0, TRUE, <<RecipeBox(150, 100, 300, 200, 90)>>)}

CanAdd == Len(boxes) < MaxBoxes /\ nextId <= MaxNextId

Next ==
    \/ \E dims \in BoxDimInputs : CanAdd /\ AddClick(dims)
    \/ \E p \in PointerPoints, dims \in BoxDimInputs : CanAdd /\ DblClick(p, dims)
    \/ RotateSelected
    \/ DeleteSelected
    \/ ClearAll
    \/ \E v \in PalletWInputs : ChangeInput("palletW", v)
    \/ \E v \in PalletDInputs : ChangeInput("palletD", v)
    \/ \E v \in GridInputs : ChangeInput("grid", v)
    \/ \E p \in PointerPoints : PointerDown(p, 0)
    \/ \E p \in PointerPoints : PointerMove(p)
    \/ PointerUp

Spec == Init /\ [][Next]_vars

(***************************************************************************)
(* The view of the canvas editor (fit, pan, the frame callback), and its   *)
(* config inputs.                                                          *)
(***************************************************************************)
\* the view stays within MaxPan of the fitted position
panBounded(px, py) ==
    /\ RLe(R(margin - MaxPan), px) /\ RLe(px, R(margin + MaxPan))
    /\ RLe(R(margin - MaxPan), py) /\ RLe(py, R(margin + MaxPan))

NextConfig ==
    \/ \E dims \in BoxDimInputs : CanAdd /\ AddClick(dims)
    \/ \E p \in PointerPoints, dims \in BoxDimInputs : CanAdd /\ DblClick(p, dims)
    \/ RotateSelected
    \/ \E v \in PalletWInputs : ChangeInput("palletW", v)
    \/ \E v \in PalletDInputs : ChangeInput("palletD", v)
    \/ \E v \in GridInputs : ChangeInput("grid", v)

SpecConfig == Init /\ [][NextConfig]_vars

NextView ==
    \/ \E dims \in BoxDimInputs : CanAdd /\ AddClick(dims)
    \/ FitView
    \/ \E v \in PalletWInputs : ChangeInput("palletW", v)
    \/ \E p \in PointerPoints, button \in Buttons : PointerDown(p, button)
    \/ \E p \in PointerPoints : PointerMove(p) /\ panBounded(panX', panY')
    \/ PointerUp
    \/ Frame

SpecView == Init /\ [][NextView]_vars

\* the render scheduler under the handlers that mark the canvas dirty
NextFrame ==
    \/ \E dims \in BoxDimInputs : CanAdd /\ AddClick(dims)
    \/ RotateSelected
    \/ DeleteSelected
    \/ FitView
    \/ Frame

SpecFrame == Init /\ [][NextFrame]_vars

(***************************************************************************)
(* The recipe codec: the textarea, the import and export buttons, and the  *)
(* handlers that make the boxes a recipe holds.                            *)
(***************************************************************************)
NextCodec ==
    \/ \E dims \in BoxDimInputs : CanAdd /\ AddClick(dims)
    \/ \E p \in PointerPoints, dims \in BoxDimInputs : CanAdd /\ DblClick(p, dims)
    \/ RotateSelected
    \/ ClearAll
    \/ \E t \in JsonInputs : TypeJson(t)
    \/ ImportClick
    \/ ExportClick

SpecCodec == Init /\ [][NextCodec]_vars

(***************************************************************************)
(* The PlcManager: login, write, read and the polling interval, over the   *)
(* collections of up to MaxBoxes boxes the Add and Rotate buttons make.    *)
(***************************************************************************)
InitPlc == EditorInit /\ PlcInit /\ ReactInit /\ build = "auth.services"

NextPlc ==
    \/ \E dims \in BoxDimInputs : CanAdd /\ AddClick(dims)
    \/ RotateSelected
    \/ LoginClick
    \/ \E k \in 1..MaxPending, ok \in BOOLEAN : LoginDone(k, ok)
    \/ WriteClick
    \/ \E k \in 1..MaxPending, ok \in BOOLEAN : WriteDone(k, ok)
    \/ ReadClick
    \/ PollTick
    \/ \E k \in 1..MaxPending, ok \in BOOLEAN : ReadDone(k, ok)

SpecPlc == InitPlc /\ [][NextPlc]_vars

(***************************************************************************)
(* The Add button, the double click and the write button over collections  *)
(* of up to MaxPlcBoxes boxes.                                             *)
(***************************************************************************)
\* the pallet centre, where the Add button puts its box
Centre == {<<Half(1200), Half(800)>>}

NextCapacity ==
    \/ \E dims \in BoxDimInputs : Len(boxes) < MaxPlcBoxes /\ AddClick(dims)
    \/ \E p \in Centre, dims \in BoxDimInputs :
          Len(boxes) < MaxPlcBoxes /\ DblClick(p, dims)
    \/ ClearAll
    \/ WriteClick
    \/ \E k \in 1..MaxPending, ok \in BOOLEAN : WriteDone(k, ok)

SpecCapacity == InitPlc /\ [][NextCapacity]_vars

(***************************************************************************)
(* The PlcCommunicator: its write button and the fetches it awaits, over   *)
(* the collections the Add button makes.                                   *)
(***************************************************************************)
NextComm ==
    \/ \E dims \in BoxDimInputs : CanAdd /\ AddClick(dims)
    \/ CommWriteClick
    \/ \E tag \in BoxFields \cup {"BoxCount"}, ok \in BOOLEAN : CommTagDone(tag, ok)

SpecComm == InitPlc /\ [][NextComm]_vars

(***************************************************************************)
(* Properties of the recipe codec (SpecCodec).                             *)
(***************************************************************************)
\* the (x, y, w, d, rot) tuple of a box
tuple(b) == <<b.x, b.y, b.w, b.d, b.rot>>

\* how many boxes of bs have the tuple t
count(bs, t) == Cardinality({i \in 1..Len(bs) : tuple(bs[i]) = t})

\* as and bs hold the same multiset of tuples
sameTuples(as, bs) ==
    /\ Len(as) = Len(bs)
    /\ \A i \in 1..Len(as) : count(as, tuple(as[i])) = count(bs, tuple(as[i]))

\* C2: importing the text produced by exporting the current state yields
\* the same pallet width and depth, the same grid and the same multiset of
\* (x, y, w, d, rot) tuples; only the ids may differ
C2_ImportOfExportIsSameState ==
    [][(ImportClick /\ jsonEl = JSONstringify(exportRecipe))
         => /\ palletW' = palletW /\ palletD' = palletD /\ grid' = grid
            /\ sameTuples(boxes', boxes)]_vars

\* C3: whenever importRecipe fails (the failure alert is raised), pallet
\* width, pallet depth, grid, the boxes, nextId and the selection are what
\* they were before the call
C3_FailedImportChangesNothing ==
    [][(ImportClick /\ alertMsg' = "Import failed")
         => UNCHANGED <<palletW, palletD, grid, boxes, nextId, selectedId>>]_vars

\* the recipe's pallet width or depth is absent, zero or negative
palletInvalid(t) == ~t.parses \/ t.w <= 0 \/ t.d <= 0

\* C4: importRecipe rejects every recipe whose pallet width or depth is
\* absent, zero or negative: the import raises the failure alert and
\* changes neither the pallet nor the grid nor the boxes
C4_InvalidPalletRejected ==
    [][(ImportClick /\ palletInvalid(jsonEl))
         => /\ alertMsg' = "Import failed"
            /\ UNCHANGED <<palletW, palletD, grid, boxes>>]_vars

(***************************************************************************)
(* Properties of the box limit (SpecCapacity).                             *)
(***************************************************************************)
\* C5: in every reachable state the collection, of the canvas editor and
\* of the React editor, holds at most 20 boxes (an add attempt at 20 boxes
\* is refused)
C5_AtMostMaxBoxes == Len(boxes) <= MAX_BOXES /\ Len(rBoxes) <= MAX_BOXES

\* C7: writePattern called with more than 20 boxes returns failure and
\* passes no tag to the transport
C7_OversizeWriteRefused ==
    (lastWrite.called /\ Len(lastWrite.boxes) > MAX_BOXES)
        => /\ ~lastWrite.invoked
           /\ lastWrite.sent = <<>>
           /\ lastWrite.result = "false"

C9_ReadRequestsEverySlot ==
    (lastRead.called /\ lastRead.invoked)
        => /\ Len(lastRead.requested) = 5 * MAX_BOXES
           /\ \A slot \in 1..MAX_BOXES :
                Cardinality({k \in 1..Len(lastRead.requested) :
                               lastRead.requested[k].var.idx = slot}) = 5

(***************************************************************************)
(* The React editor: its editing handlers (SpecReact) and its hook with    *)
(* the handlers a read interferes with (SpecHook).                         *)
(***************************************************************************)
\* getMousePos of the pointer events of the model
ReactPoints == {<<0, 0>>, <<600, 400>>}
\* Number(e.target.value) of the Width, Depth and Grid Snap inputs
WidthInputs == {400}
DepthInputs == {250}
GridSnapInputs == {20}

\* the three literal slots of the hook's reply (auth.services.ts:214-218)
mockPlcResponse ==
    <<RawSlot(200, 200, 300, 200, 0), RawSlot(550, 200, 300, 200, 90),
      RawSlot(200, 450, 300, 200, 0)>>

EmptySlot == RawSlot(0, 0, 0, 0, 0)

\* replies of the PLC: the literal one, and arrays with empty slots
ReadResponses ==
    {mockPlcResponse,
     <<EmptySlot, RawSlot(200, 200, 300, 200, 0)>>,
     <<RawSlot(200, 200, 300, 200, 0), EmptySlot, RawSlot(550, 200, 300, 200, 90)>>}

CanAddReact == Len(rBoxes) < MaxBoxes /\ rNextId <= MaxNextId

viewBounded(v) ==
    /\ v.x >= -100 - MaxPan /\ v.x <= -100 + MaxPan
    /\ v.y >= -100 - MaxPan /\ v.y <= -100 + MaxPan

InitHook == EditorInit /\ PlcInit /\ storedToken = NoToken /\ ReactInit

InitReact == InitHook /\ build = "auth.services"

NextReact ==
    \/ CanAddReact /\ AddBoxClick
    \/ RotateClick
    \/ DeleteClick
    \/ ClearAllClick
    \/ \E v \in WidthInputs : ConfigChange("width", v)
    \/ \E pos \in ReactPoints : handlePointerDown(pos)
    \/ \E pos \in ReactPoints : handlePointerMove(pos) /\ viewBounded(view')
    \/ handlePointerUp

SpecReact == InitReact /\ [][NextReact]_vars

NextHook ==
    \/ CanAddReact /\ AddBoxClick
    \/ \E v \in WidthInputs : ConfigChange("width", v)
    \/ \E v \in DepthInputs : ConfigChange("depth", v)
    \/ \E v \in GridSnapInputs : ConfigChange("grid", v)
    \/ FitViewClick
    \/ plc_connect
    \/ ConnectTimer
    \/ plc_disconnect
    \/ ReadStart
    \/ \E ok \in BOOLEAN, resp \in ReadResponses : ReadEnd(ok, resp)
    \/ WriteStart
    \/ \E ok \in BOOLEAN : WriteEnd(ok)
    \/ SuccessTimer

SpecHook == InitHook /\ [][NextHook]_vars

\* The hook awaits a 600 ms timer and reverts a success with a 2 s timer
\* (auth.services.ts:197, 200, 213, 225): a browser fires every timer that
\* is set, so an awaited operation returns and a success timer fires.  The
\* user's clicks are under no obligation.
HookFairness ==
    /\ WF_vars(\E ok \in BOOLEAN, resp \in ReadResponses : ReadEnd(ok, resp))
    /\ WF_vars(\E ok \in BOOLEAN : WriteEnd(ok))
    /\ WF_vars(SuccessTimer)

SpecHookFair == SpecHook /\ HookFairness

(***************************************************************************)
(* Properties of the React editor and its hook (SpecReact, SpecHook).      *)
(***************************************************************************)
\* b lies within a pallet of pw x pd: hw <= x <= pw - hw, hd <= y <= pd - hd,
\* with (hw, hd) = (w/2, d/2) at rot 0 and (d/2, w/2) at rot 90
withinPallet(b, pw, pd) ==
    LET ew == IF b.rot = 0 THEN b.w ELSE b.d
        ed == IF b.rot = 0 THEN b.d ELSE b.w
    IN  /\ ew <= 2 * b.x /\ 2 * b.x <= 2 * pw - ew
        /\ ed <= 2 * b.y /\ 2 * b.y <= 2 * pd - ed

\* C1: after any sequence of additions, drags, rotations, pallet and grid
\* updates and imports, every box of the collection lies within the
\* pallet, in the canvas editor and in the React editor
C1_EveryBoxWithinPallet ==
    /\ \A i \in 1..Len(boxes) : withinPallet(boxes[i], palletW, palletD)
    /\ \A i \in 1..Len(rBoxes) : withinPallet(rBoxes[i], config.width, config.depth)

\* a slot of a reply that holds a box
slotPopulated(r) == r.w > 0 /\ r.l > 0

\* the slots of resp with w > 0 and d > 0, in slot order, with ids 1..M
populatedRenumbered(resp) ==
    LET kept == SelectSeq(resp, slotPopulated)
    IN  [i \in 1..Len(kept) |->
            [id |-> i, x |-> kept[i].x, y |-> kept[i].y, w |-> kept[i].w,
             d |-> kept[i].l, rot |-> kept[i].rot]]

C11_FailedReadChangesNothing ==
    [][(rPending.op = "read" /\ rPending' = Ended("read")
            /\ opStatus' # "success")
        => UNCHANGED <<rBoxes, rNextId, view>>]_vars

\* a read has failed over a collection that holds boxes placed by the user
C11_Witness ==
    /\ rPending = Ended("read") /\ opStatus = "error"
    /\ rBoxes # <<>> /\ rNextId > 1

\* C12: every read or write of the user that fails (no token, or the bulk
\* call is rejected) is shown as a failure, never as a success
C12_FailureShownAsFailure ==
    [][(lastDone' # lastDone /\ lastDone'.by = "user" /\ lastDone'.failed)
        => plcStatus' \in {"Read Failed", "Write Failed"}]_vars

\* C13: a writePattern invocation in which some tag write failed while
\* others succeeded ends with the status 'Error', never with 'Success'
C13_PartialFailureIsFailure ==
    (~communicator.running /\ communicator.failed /\ communicator.succeeded)
        => plcStatus = "Error"

\* the write transfers among the calls the transport holds
writesInFlight(q) == Cardinality({k \in 1..Len(q) : q[k].op = "write"})

inFlight(by) ==
    {k \in 1..Len(pending) : pending[k].op \in {"read", "write"}
                                /\ pending[k].by = by}

\* C15: at most one read or write started from the UI is in flight, and
\* the operation status is 'reading' or 'writing' while one is
C15_AtMostOneOperationInFlight ==
    /\ Cardinality(inFlight("user")) <= 1
    /\ rPending.op # "none" => opStatus \in {"reading", "writing"}

\* C16: a polling read is never in flight together with a read or write
\* the user started
C16_PollNeverOverlapsUserOperation ==
    inFlight("poll") = {} \/ inFlight("user") = {}

C18_AtMostOneFramePending ==
    /\ rafQueue <= 1
    /\ rafScheduled <=> (rafQueue = 1)

\* markDirty was called again while its callback was pending
C18_Witness ==
    /\ frameLog.marks = "many"
    /\ rafQueue = 1 /\ Len(boxes) > 0

\* C19: the markDirty calls made since the last frame callback, however
\* many, leave one callback pending that will draw; a callback draws once
\* when it finds such calls and not at all when it finds none
C19_MarksCoalesceIntoOneDraw ==
    /\ frameLog.marks # "none" => (dirty /\ rafQueue = 1)
    /\ frameLog.marks = "none" => (~dirty /\ rafQueue = 0)
    /\ frameLog.drew <=> (frameLog.saw # "none")

\* a frame callback found several markDirty calls and drew once for them
C19_Witness ==
    /\ frameLog.saw = "many"
    /\ frameLog.drew /\ frameLog.marks = "none" /\ ~dirty

\* the ids of the boxes of a collection
idsOf(bs) == {bs[i].id : i \in 1..Len(bs)}

\* C20: the selection holds only ids of boxes that are in the collection,
\* in the canvas editor and in the React editor
C20_SelectionRefersToBoxes ==
    /\ selectedId # null => selectedId \in idsOf(boxes)
    /\ selectedIds \subseteq idsOf(rBoxes)

(***************************************************************************)
(* Box ids: the handlers of both editors that add boxes, remove them or    *)
(* replace the collection (part_001:414-446, 456-484; auth.services.ts     *)
(* 271-297, 357-360, 525).                                                 *)
(***************************************************************************)
\* recipes of one and of two boxes
IdJsonInputs ==
    {RecipeText(TRUE, 500, 500, 10, TRUE, <<RecipeBox(150, 100, 300, 200, 90)>>),
     RecipeText(TRUE, 500, 500, 10, TRUE,
                <<RecipeBox(150, 100, 300, 200, 0), RecipeBox(350, 400, 200, 100, 0)>>)}

NextIds ==
    \/ \E dims \in BoxDimInputs : CanAdd /\ AddClick(dims)
    \/ DeleteSelected
    \/ ClearAll
    \/ \E t \in IdJsonInputs : TypeJson(t)
    \/ ImportClick
    \/ CanAddReact /\ AddBoxClick
    \/ DeleteClick
    \/ ClearAllClick
    \/ plc_connect
    \/ ConnectTimer
    \/ ReadStart
    \/ \E ok \in BOOLEAN, resp \in ReadResponses : ReadEnd(ok, resp)

SpecIds == InitReact /\ [][NextIds]_vars

\* the ids of bs are positive integers, one per box
distinctIds(bs) ==
    /\ \A i \in 1..Len(bs) : bs[i].id \in Nat \ {0}
    /\ \A i, j \in 1..Len(bs) : bs[i].id = bs[j].id => i = j

\* C21: in every reachable state of either editor the boxes of the
\* collection have pairwise distinct positive integer ids, whatever the
\* interleaving of add, delete, clear-all, recipe import and PLC read
C21_IdsDistinctAndPositive == distinctIds(boxes) /\ distinctIds(rBoxes)

\* both collections hold two boxes, one after a delete and an add, the other
\* after a PLC read
C21_Witness ==
    /\ Len(boxes) = 2 /\ boxes[1].id = 2 /\ boxes[2].id = 3
    /\ Len(rBoxes) >= 2 /\ rPending = Ended("read")

\* C22: every box an add creates receives the largest id of the collection
\* plus one, or 1 when the collection is empty, whatever adds and deletes
\* came before
C22_AddAssignsMaxIdPlusOne ==
    [][/\ \A dims \in BoxDimInputs :
             AddClick(dims) => boxes'[Len(boxes')].id = maxId(boxes) + 1
       /\ (AddBoxClick /\ rBoxes' # rBoxes)
             => rBoxes'[Len(rBoxes')].id = maxId(rBoxes) + 1]_vars

\* C23: an import that succeeds on a recipe of N boxes leaves exactly N
\* boxes, numbered 1..N in the order of the recipe, and the next box added
\* gets the id N + 1
C23_ImportNumbersFromOne ==
    [][/\ (ImportClick /\ alertMsg' = "")
             => /\ Len(boxes') = Len(jsonEl.boxes)
                /\ \A i \in 1..Len(boxes') :
                      /\ boxes'[i].id = i
                      /\ boxes'[i].w = jsonEl.boxes[i].w
                      /\ boxes'[i].d = jsonEl.boxes[i].d
                /\ nextId' = Len(jsonEl.boxes) + 1
       /\ \A dims \in BoxDimInputs :
             (AddClick(dims) /\ nextId = Len(boxes) + 1 /\ idsOf(boxes) = 1..Len(boxes))
                => boxes'[Len(boxes')].id = Len(boxes) + 1]_vars

\* a recipe of one box was imported and a box was added after it
C23_Witness ==
    /\ Len(jsonEl.boxes) = 1
    /\ Len(boxes) = 2
    /\ boxes[1].id = 1 /\ boxes[1].rot = 90
    /\ boxes[2].id = 2 /\ boxes[2].rot = 0

(***************************************************************************)
(* The pointer interaction of the canvas (part_001:566-624): selection,    *)
(* box drag, pan, and the events that end a gesture.                       *)
(***************************************************************************)
NextDrag ==
    \/ \E dims \in BoxDimInputs : CanAdd /\ AddClick(dims)
    \/ \E p \in PointerPoints, button \in Buttons : PointerDown(p, button)
    \/ \E p \in PointerPoints : PointerMove(p) /\ panBounded(panX', panY')
    \/ PointerUp
    \/ PointerCancel

SpecDrag == Init /\ [][NextDrag]_vars

\* C24: from any dragging state (box drag or pan) a pointerup or a
\* pointercancel returns the controller to Idle, isDragging and isPanning
\* both false, and leaves the selection as it was
C24_ReleaseReturnsToIdle ==
    [][((PointerUp \/ PointerCancel) /\ (isDragging \/ isPanning))
          => (~isDragging' /\ ~isPanning' /\ selectedId' = selectedId)]_vars

\* the centre a drag gives box b with the pointer over world point p:
\* clamp(snap(p + offset, grid)) against the pallet
dragTarget(b, p) ==
    [x |-> clamp(snap(p[1] + dragOffsetX, grid),
                 getDims(b).hw, palletW - getDims(b).hw),
     y |-> clamp(snap(p[2] + dragOffsetY, grid),
                 getDims(b).hd, palletD - getDims(b).hd)]

\* C25: a primary-button pointerdown that hits box B selects B, enters the
\* box drag and captures offset = centre of B - pointer; every pointermove
\* of the box drag puts the centre of the dragged box at
\* clamp(snap(pointer + offset, grid)) and changes no other box; a
\* pointerdown that hits no box clears the selection and starts no drag
C25_DragFollowsPointer ==
    [][\A p \in PointerPoints :
         LET hit == hitTest(p[1], p[2])
             i == findIndex(boxes, selectedId)
         IN  /\ (PointerDown(p, 0) /\ hit # 0)
                   => /\ selectedId' = boxes[hit].id
                      /\ isDragging'
                      /\ dragOffsetX' = boxes[hit].x - p[1]
                      /\ dragOffsetY' = boxes[hit].y - p[2]
                      /\ boxes' = boxes
             /\ (PointerDown(p, 0) /\ hit = 0)
                   => /\ selectedId' = null
                      /\ isDragging' = isDragging
                      /\ boxes' = boxes
             /\ (PointerMove(p) /\ isDragging /\ ~isPanning /\ i # 0)
                   => /\ Len(boxes') = Len(boxes)
                      /\ boxes'[i] = [boxes[i] EXCEPT
                                        !.x = dragTarget(boxes[i], p).x,
                                        !.y = dragTarget(boxes[i], p).y]
                      /\ \A j \in 1..Len(boxes) : j # i => boxes'[j] = boxes[j]
             /\ (PointerMove(p) /\ selectedId = null) => boxes' = boxes]_vars

\* the second of two boxes was pressed away from its centre and dragged:
\* it sits at the snapped pointer position plus the offset, the first box
\* where it was added
C25_Witness ==
    /\ Len(boxes) = 2 /\ isDragging /\ selectedId = boxes[2].id
    /\ dragOffsetX = 150 /\ dragOffsetY = 100
    /\ boxes[2].x = 760 /\ boxes[2].y = 500
    /\ boxes[1].x = 600 /\ boxes[1].y = 400

(***************************************************************************)
(* Zoom: the wheel and fit handlers of the canvas editor (part_001:394-403,*)
(* 498-505, 626-632) and the wheel, zoom and fit handlers of the React     *)
(* editor (auth.services.ts:337-349, 521-523).                             *)
(***************************************************************************)
\* a pallet wider than the canvas can show at the smallest scale
WidePalletInputs == {30000}
\* a narrow pallet in the Width input of the React editor
NarrowWidthInputs == {100}
\* pointer positions on the svg, client px
ClientPoints == {<<0, 0>>, <<700, 500>>}
\* the rectangle of the svg element
SvgRects == {[width |-> 1400, height |-> 1000]}

\* the scale has few enough digits to be zoomed once more
zoomBounded == scale[2] <= MaxScaleDen

\* the view stays within MaxZoomPan of the fitted position
zoomPanBounded(px, py) ==
    /\ RLe(R(margin - MaxZoomPan), px) /\ RLe(px, R(margin + MaxZoomPan))
    /\ RLe(R(margin - MaxZoomPan), py) /\ RLe(py, R(margin + MaxZoomPan))

\* the zoomed viewBox has whole coordinates
wholeView(v, zoomFactor) ==
    /\ (v.w * zoomFactor[1]) % zoomFactor[2] = 0
    /\ (v.h * zoomFactor[1]) % zoomFactor[2] = 0
    /\ ((v.w * zoomFactor[1]) \div zoomFactor[2] - v.w) % 2 = 0
    /\ ((v.h * zoomFactor[1]) \div zoomFactor[2] - v.h) % 2 = 0

NextZoom ==
    \/ \E p \in PointerPoints, factor \in WheelFactors :
          zoomBounded /\ Wheel(p, factor) /\ zoomPanBounded(panX', panY')
    \/ FitView
    \/ \E v \in WidePalletInputs : ChangeInput("palletW", v)
    \/ \E zoomFactor \in zoomFactors :
          wholeView(view, zoomFactor) /\ handleWheel(zoomFactor)
    \/ \E zoomFactor \in zoomFactors :
          wholeView(view, zoomFactor) /\ ZoomClick(zoomFactor)
    \/ \E v \in NarrowWidthInputs : ConfigChange("width", v)
    \/ FitViewClick

SpecZoom == Init /\ [][NextZoom]_vars

\* C26: after a zoom at a screen point the world point that was under it
\* maps to the same screen point in the new viewport, also when the new
\* scale is clamped; in the React editor, the world point under the pointer
\* is the same before and after the wheel handler
C26_ZoomKeepsPointUnderCursor ==
    [][/\ \A p \in PointerPoints, factor \in WheelFactors :
             Wheel(p, factor)
                => worldToScreen(p[1], p[2])' = worldToScreen(p[1], p[2])
       /\ \A zoomFactor \in zoomFactors, c \in ClientPoints, rect \in SvgRects :
             (wholeView(view, zoomFactor) /\ handleWheel(zoomFactor))
                => getMousePos(rect, view', c[1], c[2])
                     = getMousePos(rect, view, c[1], c[2])]_vars

\* s lies in the range 0.05 .. 4.0
inZoomRange(s) == RLe(<<1, 20>>, s) /\ RLe(s, <<4, 1>>)

\* C27: in every reachable state the scale of the viewport lies in
\* [0.05, 4.0], after any sequence of wheel zooms, zoom buttons and fit-view:
\* the scale of the canvas editor, and the zoom the React editor shows
C27_ScaleWithinRange == inZoomRange(scale) /\ inZoomRange(shownZoom(view))

\* world points, on and off the pallet
WorldPoints == {<<0, 0>>, <<600, 400>>, <<-37, 1213>>}

SnapGridInputs == {1, 7, 50}
\* a recipe with a negative grid
SnapJsonInputs ==
    {RecipeText(TRUE, 500, 500, -5, TRUE, <<RecipeBox(152, 101, 300, 200, 0)>>)}
\* values to snap: negative, zero, halfway between multiples, off-grid
SnapValues == {-37, -25, 0, 3, 25, 40, 1213}

NextSnap ==
    \/ \E dims \in BoxDimInputs : CanAdd /\ AddClick(dims)
    \/ \E p \in PointerPoints, dims \in BoxDimInputs : CanAdd /\ DblClick(p, dims)
    \/ \E v \in SnapGridInputs : ChangeInput("grid", v)
    \/ \E t \in SnapJsonInputs : TypeJson(t)
    \/ ImportClick

SpecSnap == Init /\ [][NextSnap]_vars

\* C29: snap(snap(v, g), g) = snap(v, g) for every value v and grid g; for
\* g <= 1 snap is the identity, otherwise its result is the multiple of g
\* nearest to v
C29_SnapIdempotentNearestMultiple ==
    \A v \in SnapValues :
        LET s == snap(v, grid)
        IN  /\ snap(s, grid) = s
            /\ grid <= 1 => s = v
            /\ grid > 1 => /\ s % grid = 0
                           /\ 2 * (IF s > v THEN s - v ELSE v - s) <= grid

\* the grid is 7 and the boxes were put on it: a box added at the centre
\* (600, 400) sits at (602, 399)
C29_Witness ==
    /\ grid = 7
    /\ Len(boxes) >= 1 /\ boxes[1].x = 602 /\ boxes[1].y = 399
    /\ snap(1213, grid) = 1211

\* presses, drags and rotations that bring boxes over one another
NextHit ==
    \/ \E dims \in BoxDimInputs : CanAdd /\ AddClick(dims)
    \/ RotateSelected
    \/ \E p \in PointerPoints : PointerDown(p, 0)
    \/ \E p \in PointerPoints : PointerMove(p)
    \/ PointerUp

SpecHit == Init /\ [][NextHit]_vars

\* points to test: the pointer's, corners and edges of a box at the centre,
\* a point just outside, a point only the rotated box covers
HitPoints ==
    PointerPoints \cup {<<450, 300>>, <<449, 300>>, <<750, 500>>, <<600, 540>>,
                        <<300, 200>>}

\* (x, y) lies in the rectangle of b, its sides swapped when b is rotated
insideRotated(b, x, y) ==
    LET across == IF b.rot = 90 THEN b.d ELSE b.w
        along == IF b.rot = 90 THEN b.w ELSE b.d
    IN  /\ 2 * (x - b.x) <= across /\ 2 * (b.x - x) <= across
        /\ 2 * (y - b.y) <= along /\ 2 * (b.y - y) <= along

\* C30: hitTest returns the box that comes latest in the collection among
\* those whose rotation-adjusted rectangle contains (x, y), and none
\* exactly when no box contains the point
C30_HitTestReturnsTopmostBox ==
    \A p \in HitPoints :
        LET hit == hitTest(p[1], p[2])
            under == {i \in 1..Len(boxes) : insideRotated(boxes[i], p[1], p[2])}
        IN  /\ hit = 0 <=> under = {}
            /\ hit # 0 => hit \in under /\ \A j \in under : j <= hit

\* two boxes overlap at the centre, the first one rotated; a point under
\* both hits the second, a point under the rotated one alone hits the first
C30_Witness ==
    /\ Len(boxes) = 2
    /\ boxes[1].rot = 90 /\ boxes[2].rot = 0
    /\ hitTest(600, 400) = 2
    /\ hitTest(600, 540) = 1
    /\ hitTest(449, 300) = 0

(***************************************************************************)
(* Rotation: rotate, recipe import (part_001:424-431, 466-477) and the     *)
(* rotate and PLC read of the React editor (auth.services.ts:209-226,      *)
(* 290-292).                                                               *)
(***************************************************************************)
\* a recipe whose box holds a rotation other than 0 and 90
RotJsonInputs ==
    {RecipeText(TRUE, 500, 500, 10, TRUE, <<RecipeBox(150, 100, 300, 200, 45)>>)}
\* replies of the PLC: the literal one, and one whose slot holds rot 45
RotResponses == {mockPlcResponse, <<RawSlot(200, 200, 300, 200, 45)>>}

NextRot ==
    \/ \E dims \in BoxDimInputs : CanAdd /\ AddClick(dims)
    \/ RotateSelected
    \/ \E t \in RotJsonInputs : TypeJson(t)
    \/ ImportClick
    \/ CanAddReact /\ AddBoxClick
    \/ RotateClick
    \/ plc_connect
    \/ ConnectTimer
    \/ ReadStart
    \/ \E ok \in BOOLEAN, resp \in RotResponses : ReadEnd(ok, resp)

SpecRot == InitReact /\ [][NextRot]_vars

C32_ConfigWithinMinimums ==
    /\ palletW >= 100 /\ palletD >= 100 /\ grid >= 1
    /\ config.width >= 100 /\ config.depth >= 100 /\ config.grid >= 1

(***************************************************************************)
(* The viewport handlers next to boxes and a selection: pan, wheel zoom    *)
(* and fit of the canvas editor (part_001:394-403, 498-505, 593-605).      *)
(***************************************************************************)
NextViewport ==
    \/ \E dims \in BoxDimInputs : CanAdd /\ AddClick(dims)
    \/ \E p \in PointerPoints, button \in Buttons : PointerDown(p, button)
    \/ \E p \in PointerPoints :
          isPanning /\ PointerMove(p) /\ zoomPanBounded(panX', panY')
    \/ PointerUp
    \/ \E p \in PointerPoints, factor \in WheelFactors :
          scale[2] = 1 /\ Wheel(p, factor) /\ zoomPanBounded(panX', panY')
    \/ FitView

SpecViewport == Init /\ [][NextViewport]_vars

\* C33: panning by pointer move, wheel zoom and fit-view change the
\* viewport only: the boxes and every field of them, the pallet
\* configuration, nextId and the selection stay as they were
C33_ViewportOpsLeaveModelAlone ==
    [][((\E p \in PointerPoints : PointerMove(p) /\ isPanning)
        \/ (\E p \in PointerPoints, factor \in WheelFactors : Wheel(p, factor))
        \/ FitView)
          => UNCHANGED <<boxes, palletW, palletD, grid, nextId, selectedId>>]_vars

\* the view was panned and zoomed away from the fit while a box drag of a
\* selected box was still on
C33_Witness ==
    /\ Len(boxes) = 2 /\ selectedId # null /\ isDragging /\ isPanning
    /\ panX # R(margin) /\ scale # R(1)

\* C34: a pointerdown on a box followed by a pointermove to the same pointer
\* position leaves the centre of the box where it was: with the pointer
\* where the offset was captured (offset = centre - pointer), a move of the
\* box drag does not change the centre
C34_DragStartDoesNotJump ==
    [][\A p \in PointerPoints :
         LET i == findIndex(boxes, selectedId)
         IN  (/\ PointerMove(p)
              /\ isDragging /\ ~isPanning /\ i # 0
              /\ dragOffsetX = boxes[i].x - p[1]
              /\ dragOffsetY = boxes[i].y - p[2])
                => boxes'[i].x = boxes[i].x /\ boxes'[i].y = boxes[i].y]_vars

\* a pallet width that leaves the right-hand limit of a 300 wide box off the grid
ResnapWidthInputs == {416}

\* the config inputs next to boxes added and rotated (part_001:486-496)
NextResnap ==
    \/ \E dims \in BoxDimInputs : CanAdd /\ AddClick(dims)
    \/ \E p \in PointerPoints, dims \in BoxDimInputs : CanAdd /\ DblClick(p, dims)
    \/ RotateSelected
    \/ \E v \in PalletWInputs \cup ResnapWidthInputs : ChangeInput("palletW", v)
    \/ \E v \in PalletDInputs : ChangeInput("palletD", v)
    \/ \E v \in GridInputs : ChangeInput("grid", v)

SpecResnap == Init /\ [][NextResnap]_vars

\* C35: updateFromInputs is idempotent: run again with the width, depth and
\* grid inputs unchanged, its re-snap and re-clamp pass moves no box
C35_UpdateFromInputsIdempotent ==
    [][\A el \in {"palletW", "palletD", "grid"},
          v \in PalletWInputs \cup PalletDInputs \cup GridInputs \cup ResnapWidthInputs :
         ChangeInput(el, v)
            => resnapped(boxes', grid', palletW', palletD') = boxes']_vars

\* C36: in no reachable state are isDragging and isPanning both true, for
\* every sequence of pointerdown (any button), pointermove and pointerup.
C36_NeverDraggingAndPanning == ~(isDragging /\ isPanning)

\* pointer events interleaved with the keyboard and button handlers that
\* change the collection (part_001:433-484, 566-646)
NextInterleave ==
    \/ \E dims \in BoxDimInputs : boxes = <<>> /\ CanAdd /\ AddClick(dims)
    \/ \E p \in PointerPoints : PointerDown(p, 0)
    \/ \E p \in PointerPoints : isDragging /\ PointerMove(p)
    \/ PointerUp
    \/ DeleteSelected
    \/ RotateSelected
    \/ ClearAll
    \/ \E t \in IdJsonInputs : Len(t.boxes) = 2 /\ TypeJson(t)
    \/ ImportClick

SpecInterleave == Init /\ [][NextInterleave]_vars

\* C37: whenever isDragging is true, selectedId is the id of a box that is
\* still in the collection, under every interleaving of pointer events with
\* delete, rotate, clear-all and recipe import; and a pointermove during a
\* drag moves no box other than the selected one.
C37_DragTargetStaysInCollection ==
    /\ [](isDragging => (selectedId # null /\ findIndex(boxes, selectedId) # 0))
    /\ [][\A p \in PointerPoints :
            (PointerMove(p) /\ isDragging)
                => /\ Len(boxes') = Len(boxes)
                   /\ \A i \in 1..Len(boxes) :
                         boxes[i].id # selectedId => boxes'[i] = boxes[i]]_vars

\* the browser runs every frame callback it was asked for
SpecFrameFair == SpecFrame /\ WF_vars(Frame)

\* C38: whenever dirty is true a frame callback is pending; only the frame
\* callback makes dirty false; and, the frame callback being fair, no mark is
\* left without a draw: either dirty is false again and again, or the frame
\* callback finds dirty true and runs draw() again and again (draw() makes
\* dirty false in its first statement and marks the canvas dirty again only
\* when the canvas was resized).
C38_DirtyLeadsToDraw ==
    /\ [](dirty => (rafScheduled /\ rafQueue = 1))
    /\ [][(dirty /\ ~dirty') => Frame]_vars
    /\ ([]<>(~dirty) \/ []<><<Frame /\ dirty>>_vars)

\* a handler marked the canvas dirty once and the callback drew for it
C38_Witness ==
    /\ frameLog.saw = "one" /\ frameLog.drew
    /\ ~dirty /\ rafQueue = 0 /\ Len(boxes) = 1

(***************************************************************************)
(* Polling: startDataPolling and stopDataPolling are public methods of the *)
(* PlcManager (part_001:135-152); viteOnInit has called the first once.    *)
(***************************************************************************)
\* startDataPolling (part_001:135-144): a new interval is subscribed and its
\* handle replaces the one held, which is not unsubscribed
startDataPolling ==
    /\ pollingSubscription' = TRUE
    /\ subscriptions' = subscriptions + 1
    /\ UNCHANGED <<authToken, storedToken, plcStatus, pending, lastWrite,
                   lastRead, lastDone>>
    /\ UNCHANGED <<editorVars, reactVars, communicator>>

\* stopDataPolling (part_001:147-152): the subscription of the handle held,
\* if any, is unsubscribed and the handle becomes null
stopDataPolling ==
    /\ IF pollingSubscription
       THEN /\ subscriptions' = subscriptions - 1
            /\ pollingSubscription' = FALSE
       ELSE UNCHANGED <<pollingSubscription, subscriptions>>
    /\ UNCHANGED <<authToken, storedToken, plcStatus, pending, lastWrite,
                   lastRead, lastDone>>
    /\ UNCHANGED <<editorVars, reactVars, communicator>>

NextPolling ==
    \/ subscriptions < MaxSubscriptions /\ startDataPolling
    \/ stopDataPolling
    \/ PollTick
    \/ \E k \in 1..MaxPending, ok \in BOOLEAN : ReadDone(k, ok)
    \/ LoginClick
    \/ \E k \in 1..MaxPending, ok \in BOOLEAN : LoginDone(k, ok)

SpecPolling == InitPlc /\ [][NextPolling]_vars

\* C39: once stopDataPolling has returned and until startDataPolling is
\* called again (the handle is null), no polling subscription is active and
\* no tick of the polling interval calls readPattern, whatever calls of
\* startDataPolling and stopDataPolling came before.
C39_StopEndsPolling ==
    /\ [](~pollingSubscription => subscriptions = 0)
    /\ [][PollTick => pollingSubscription]_vars
====
